---- MODULE Spec2Model ----
(***************************************************************************)
(* Model of the metro_EMS station-radio backend.                           *)
(*                                                                         *)
(*  Part I   Session registry of real_backend.py: the module-level         *)
(*           SESSIONS dict and NEXT_SESSION_ID counter, and the request    *)
(*           handlers start_session, get_session_summary,                  *)
(*           get_device_session and refresh_session_summary.  The          *)
(*           handlers are plain `def` endpoints, which the framework runs  *)
(*           on worker threads, so handlers interleave at every access to  *)
(*           the shared module state (there is no lock in the source).     *)
(*  Part II  Bounded concurrent scanner of network_scanner.py:             *)
(*           scan_for_snmp_devices with its probe threads scan_ip.         *)
(***************************************************************************)
EXTENDS Integers, Sequences, FiniteSets, TLC

VARIABLES
    SESSIONS,          \* dict: session id -> reference (index) into heap
    NEXT_SESSION_ID,   \* module-level counter
    heap,              \* the session dict objects, by reference
    h,                 \* per worker thread: the handler it runs and its locals
    issued_ids,        \* session ids returned by successful start_session calls, in order
    resp,              \* the HTTP response sent last, with the handler's probe log
    networks,          \* scan_for_snmp_devices argument
    max_threads,       \* scan_for_snmp_devices argument
    limit_hosts,       \* scan_for_snmp_devices argument (NoLimit for None)
    sc,                \* coordinator locals of scan_for_snmp_devices
    threads,           \* the list `threads`: probe threads of the current batch
    devices,           \* the list `devices`
    started,           \* every ip a probe thread was started for, in start order
    call               \* the probe call in progress (snmp_get, the credential probers,
                       \* scan_ip and calculate_network_base on their own)

regVars  == <<SESSIONS, NEXT_SESSION_ID, heap, h, issued_ids, resp>>
scanVars == <<networks, max_threads, limit_hosts, sc, threads, devices, started>>
vars     == <<SESSIONS, NEXT_SESSION_ID, heap, h, issued_ids, resp,
              networks, max_threads, limit_hosts, sc, threads, devices, started,
              call>>

(***************************************************************************)
(* Bounds                                                                  *)
(***************************************************************************)
NumHandlers == 2      \* worker threads serving requests
MaxStarts   == 2      \* start_session calls that get past the liveness check

Handlers == 1 .. NumHandlers
PathIds  == 1 .. (MaxStarts + 1)     \* session ids a get / refresh may name

(***************************************************************************)
(* Values                                                                  *)
(***************************************************************************)
None      == "None"
Simulated == "Simulated SNMP Response"
\* what one snmp_get can return: None, an empty string, the placeholder, a value
ProbeValues == {None, "", Simulated, "descrA"}

SYS_DESCR   == "1.3.6.1.2.1.1.1.0"
SYS_UPTIME  == "1.3.6.1.2.1.1.3.0"
SYS_NAME    == "1.3.6.1.2.1.1.5.0"
PROXIM_PRODUCT_DESCR == "1.3.6.1.4.1.841.1.1.2.1.5.7"
PROXIM_SYSTEM_NAME   == "1.3.6.1.4.1.841.1.1.2.1.5.8"

EnvCommunity == "public"     \* os.getenv("METRO_SNMP_COMMUNITY", "public")
EnvPort      == 161          \* int(os.getenv("METRO_SNMP_PORT", "161"))

\* Python truthiness of an optional string
Truthy(v) == v # None /\ v # ""
\* Python `a or b`
Or(a, b) == IF Truthy(a) THEN a ELSE b

\* SessionStartRequest bodies: one with every optional field absent, one with
\* every SNMP override present.
Requests ==
    { [ip |-> "10.205.5.20", device_type |-> "station_radio",
       community |-> None, version |-> None, port |-> 0, oid |-> None],
      [ip |-> "10.205.5.20", device_type |-> "station_radio",
       community |-> "private", version |-> "1", port |-> 1161, oid |-> SYS_NAME] }

\* inputs of the concurrent specification: an agent that answers or times out,
\* and the request without overrides
RaceValues   == {None, "descrA"}
RaceRequests == {r \in Requests : r.oid = None}

ReqCommunity(req) == Or(req.community, EnvCommunity)
ReqPort(req)      == IF req.port # 0 THEN req.port ELSE EnvPort

candidate_oids_vendor_first(req) ==
    << Or(req.oid, SYS_DESCR), PROXIM_PRODUCT_DESCR, SYS_UPTIME, PROXIM_SYSTEM_NAME >>
candidate_oids(req) ==
    << Or(req.oid, SYS_DESCR), SYS_UPTIME, PROXIM_PRODUCT_DESCR, PROXIM_SYSTEM_NAME >>

\* `if val and val != "Simulated SNMP Response"`
LivenessOk(val) == Truthy(val) /\ val # Simulated

\* `if not ok_value: raise HTTPException(400)`
AfterLiveness_unchecked(ok_value) == "read_id"
AfterLiveness(ok_value) == IF Truthy(ok_value) THEN "read_id" ELSE "fail"

\* `NEXT_SESSION_ID += 1`
NextId_skip(n) == n + 2
NextId(n) == n + 1

\* `sess = SESSIONS.get(session_id); if not sess: raise HTTPException(404)`
Missing_unchecked(id) == FALSE
Missing(id) == id \notin DOMAIN SESSIONS

\* `descr = snmp_get(...) or sess.get("last_sysDescr")`
CachedOr_default(val, cached) == Or(val, "Unknown Device")
CachedOr(val, cached) == Or(val, cached)

\* `if descr: sess["last_sysDescr"] = descr`
WriteBack(new, old) == IF Truthy(new) THEN new ELSE old

Probe(oid, community, version, port) ==
    [oid |-> oid, community |-> community, version |-> version, port |-> port]

NoResp == [kind |-> "none", status |-> 0, sid |-> 0, session_id |-> 0,
           verified_oid |-> None, system_name |-> None, sysDescr |-> None,
           probes |-> << >>]

IdleH == [op |-> "none", pc |-> "idle", req |-> CHOOSE r \in Requests : r.oid = None,
          sid |-> 0, i |-> 0, ok_value |-> None, ok_oid |-> None,
          session_id |-> 0, tmp |-> 0, sys_name |-> None,
          sess |-> 0, dval |-> None, descr |-> None, nval |-> None, name |-> None,
          probes |-> <<>>]

\* the response of handler record rec: kind, path id and probe log come from rec
Response(rec, status) == [NoResp EXCEPT !.kind = rec.op, !.status = status,
                                        !.sid = rec.sid, !.probes = rec.probes]

\* no probe call is in progress
NoCall == [fn |-> "none"]

ActiveStarts == Cardinality({t \in Handlers : h[t].op = "start" /\ h[t].pc # "idle"})

(***************************************************************************)
(* Part I: session registry                                                *)
(***************************************************************************)
RegInit ==
    /\ SESSIONS = << >>
    /\ NEXT_SESSION_ID = 1
    /\ heap = << >>
    /\ h = [t \in Handlers |-> IdleH]
    /\ issued_ids = << >>
    /\ resp = NoResp

\* POST /session/start arrives at worker t
StartBegin(t, R) ==
    /\ h[t].pc = "idle"
    /\ Len(issued_ids) + ActiveStarts < MaxStarts
    /\ \E req \in R :
         h' = [h EXCEPT ![t] = [IdleH EXCEPT !.op = "start", !.pc = "liveness",
                                             !.req = req, !.i = 1]]
    /\ resp' = NoResp
    /\ UNCHANGED <<SESSIONS, NEXT_SESSION_ID, heap, issued_ids>>

\* one iteration of `for oid in candidate_oids`, and the check after the loop
StartLiveness(t, V) ==
    /\ h[t].op = "start" /\ h[t].pc = "liveness"
    /\ \E val \in V :
         LET req == h[t].req
             oid == candidate_oids(req)[h[t].i]
             log == Append(h[t].probes,
                           Probe(oid, ReqCommunity(req), req.version, ReqPort(req)))
             ok  == IF LivenessOk(val) THEN val ELSE None
         IN  IF LivenessOk(val) \/ h[t].i = Len(candidate_oids(req))
             THEN IF AfterLiveness(ok) = "fail"
                  THEN /\ h' = [h EXCEPT ![t] = IdleH]
                       /\ resp' = Response([h[t] EXCEPT !.probes = log], 400)
                  ELSE /\ h' = [h EXCEPT ![t].probes = log, ![t].ok_value = ok,
                                         ![t].ok_oid = IF LivenessOk(val) THEN oid ELSE None,
                                         ![t].pc = "read_id"]
                       /\ UNCHANGED resp
             ELSE /\ h' = [h EXCEPT ![t].probes = log, ![t].i = h[t].i + 1]
                  /\ UNCHANGED resp
    /\ UNCHANGED <<SESSIONS, NEXT_SESSION_ID, heap, issued_ids>>

\* `session_id = NEXT_SESSION_ID`
StartReadId(t) ==
    /\ h[t].op = "start" /\ h[t].pc = "read_id"
    /\ h' = [h EXCEPT ![t].session_id = NEXT_SESSION_ID, ![t].pc = "load"]
    /\ UNCHANGED <<SESSIONS, NEXT_SESSION_ID, heap, issued_ids, resp>>

\* `NEXT_SESSION_ID += 1`: load of the global ...
StartLoadCounter(t) ==
    /\ h[t].op = "start" /\ h[t].pc = "load"
    /\ h' = [h EXCEPT ![t].tmp = NEXT_SESSION_ID, ![t].pc = "store"]
    /\ UNCHANGED <<SESSIONS, NEXT_SESSION_ID, heap, issued_ids, resp>>

\* ... and store of the incremented value
StartStoreCounter(t) ==
    /\ h[t].op = "start" /\ h[t].pc = "store"
    /\ NEXT_SESSION_ID' = NextId(h[t].tmp)
    /\ h' = [h EXCEPT ![t].pc = "sysname"]
    /\ UNCHANGED <<SESSIONS, heap, issued_ids, resp>>

\* `sys_name = snmp_get(ip, community, sysName) or snmp_get(ip, community, proximSystemName)`
StartSysName(t, V) ==
    /\ h[t].op = "start" /\ h[t].pc = "sysname"
    /\ \E v1, v2 \in V :
         LET c  == ReqCommunity(h[t].req)
             p1 == Append(h[t].probes, Probe(SYS_NAME, c, None, EnvPort))
             p2 == Append(p1, Probe(PROXIM_SYSTEM_NAME, c, None, EnvPort))
         IN  h' = [h EXCEPT ![t].sys_name = Or(v1, v2),
                            ![t].probes = IF Truthy(v1) THEN p1 ELSE p2,
                            ![t].pc = "insert"]
    /\ UNCHANGED <<SESSIONS, NEXT_SESSION_ID, heap, issued_ids, resp>>

\* `SESSIONS[session_id] = {...}`: the new dict is bound to the id, every other
\* key keeps its dict
StoreSession_evict(S, id, ref) == [k \in {id} |-> ref]
StoreSession(S, id, ref) == [k \in DOMAIN S \cup {id} |-> IF k = id THEN ref ELSE S[k]]

\* `SESSIONS[session_id] = {...}` and the 200 response; created_at is the
\* order of creation
StartInsert(t) ==
    /\ h[t].op = "start" /\ h[t].pc = "insert"
    /\ LET req == h[t].req
           id  == h[t].session_id
           ref == Len(heap) + 1
       IN  /\ heap' = Append(heap,
                        [ip |-> req.ip, device_type |-> req.device_type,
                         status |-> "active",
                         system_name |-> h[t].sys_name,
                         community |-> ReqCommunity(req),
                         created_at |-> ref,
                         last_sysDescr |-> None])
           /\ SESSIONS' = StoreSession(SESSIONS, id, ref)
           /\ issued_ids' = Append(issued_ids, id)
           /\ h' = [h EXCEPT ![t] = IdleH]
           /\ resp' = [Response(h[t], 200) EXCEPT !.session_id = id,
                                                  !.verified_oid = h[t].ok_oid,
                                                  !.system_name = h[t].sys_name]
    /\ UNCHANGED NEXT_SESSION_ID

\* GET /session/{session_id}/summary
GetSessionSummary(t) ==
    /\ h[t].pc = "idle"
    /\ \E id \in PathIds :
         LET rec == [IdleH EXCEPT !.op = "summary", !.sid = id]
         IN  resp' = IF Missing(id)
                     THEN Response(rec, 404)
                     ELSE [Response(rec, 200) EXCEPT !.session_id = id]
    /\ UNCHANGED <<SESSIONS, NEXT_SESSION_ID, heap, h, issued_ids>>

\* GET /device-sessions/{session_id}
GetDeviceSession(t) ==
    /\ h[t].pc = "idle"
    /\ \E id \in PathIds :
         LET rec == [IdleH EXCEPT !.op = "device", !.sid = id]
         IN  resp' = IF Missing(id)
                     THEN Response(rec, 404)
                     ELSE [Response(rec, 200) EXCEPT !.session_id = id]
    /\ UNCHANGED <<SESSIONS, NEXT_SESSION_ID, heap, h, issued_ids>>

\* POST /session/{session_id}/refresh: the lookup
RefreshBegin(t) ==
    /\ h[t].pc = "idle"
    /\ \E id \in PathIds :
         IF Missing(id)
         THEN /\ resp' = Response([IdleH EXCEPT !.op = "refresh", !.sid = id], 404)
              /\ UNCHANGED h
         ELSE /\ h' = [h EXCEPT ![t] = [IdleH EXCEPT !.op = "refresh", !.sid = id,
                                                     !.sess = IF id \in DOMAIN SESSIONS
                                                              THEN SESSIONS[id] ELSE 0,
                                                     !.pc = "descr"]]
              /\ resp' = NoResp
    /\ UNCHANGED <<SESSIONS, NEXT_SESSION_ID, heap, issued_ids>>

RefreshCommunity(t) == Or(heap[h[t].sess].community, "public")

\* `descr = snmp_get(ip, community, sysDescr) or sess.get("last_sysDescr")`
RefreshDescr(t, V) ==
    /\ h[t].op = "refresh" /\ h[t].pc = "descr"
    /\ \E val \in V :
         h' = [h EXCEPT ![t].dval = val,
                        ![t].descr = CachedOr(val, heap[h[t].sess].last_sysDescr),
                        ![t].probes = Append(h[t].probes,
                                        Probe(SYS_DESCR, RefreshCommunity(t), None, EnvPort)),
                        ![t].pc = "write_descr"]
    /\ UNCHANGED <<SESSIONS, NEXT_SESSION_ID, heap, issued_ids, resp>>

\* the dict after `if descr: sess["last_sysDescr"] = descr`
WriteDescr_expire(sess, descr) ==
    [sess EXCEPT !.last_sysDescr = WriteBack(descr, @), !.status = "refreshed"]
WriteDescr(sess, descr) == [sess EXCEPT !.last_sysDescr = WriteBack(descr, @)]

\* `if descr: sess["last_sysDescr"] = descr`
RefreshWriteDescr(t) ==
    /\ h[t].op = "refresh" /\ h[t].pc = "write_descr"
    /\ heap' = [heap EXCEPT ![h[t].sess] = WriteDescr(@, h[t].descr)]
    /\ h' = [h EXCEPT ![t].pc = "name"]
    /\ UNCHANGED <<SESSIONS, NEXT_SESSION_ID, issued_ids, resp>>

\* `name = snmp_get(sysName) or snmp_get(proximSystemName) or sess.get("system_name")`
RefreshName(t, V) ==
    /\ h[t].op = "refresh" /\ h[t].pc = "name"
    /\ \E v1, v2 \in V :
         LET c  == RefreshCommunity(t)
             p1 == Append(h[t].probes, Probe(SYS_NAME, c, None, EnvPort))
             p2 == Append(p1, Probe(PROXIM_SYSTEM_NAME, c, None, EnvPort))
         IN  h' = [h EXCEPT ![t].nval = Or(v1, v2),
                            ![t].name = CachedOr(Or(v1, v2), heap[h[t].sess].system_name),
                            ![t].probes = IF Truthy(v1) THEN p1 ELSE p2,
                            ![t].pc = "write_name"]
    /\ UNCHANGED <<SESSIONS, NEXT_SESSION_ID, heap, issued_ids, resp>>

\* `if name: sess["system_name"] = name`
RefreshWriteName(t) ==
    /\ h[t].op = "refresh" /\ h[t].pc = "write_name"
    /\ heap' = [heap EXCEPT ![h[t].sess].system_name = WriteBack(h[t].name, @)]
    /\ h' = [h EXCEPT ![t].pc = "uptime"]
    /\ UNCHANGED <<SESSIONS, NEXT_SESSION_ID, issued_ids, resp>>

\* `uptime = snmp_get(sysUpTime) or None` and the 200 response
RefreshReturn(t) ==
    /\ h[t].op = "refresh" /\ h[t].pc = "uptime"
    /\ LET log == Append(h[t].probes,
                         Probe(SYS_UPTIME, RefreshCommunity(t), None, EnvPort))
       IN  /\ h' = [h EXCEPT ![t] = IdleH]
           /\ resp' = [Response([h[t] EXCEPT !.probes = log], 200) EXCEPT
                          !.session_id = h[t].sid,
                          !.system_name = heap[h[t].sess].system_name,
                          !.sysDescr = heap[h[t].sess].last_sysDescr]
    /\ UNCHANGED <<SESSIONS, NEXT_SESSION_ID, heap, issued_ids>>

\* PUT /device-sessions/{session_id}/configuration
UpdateDeviceConfiguration(t) ==
    /\ h[t].pc = "idle"
    /\ \E id \in PathIds :
         LET rec == [IdleH EXCEPT !.op = "configuration", !.sid = id]
         IN  resp' = IF Missing(id)
                     THEN Response(rec, 404)
                     ELSE [Response(rec, 200) EXCEPT !.session_id = id]
    /\ UNCHANGED <<SESSIONS, NEXT_SESSION_ID, heap, h, issued_ids>>

(***************************************************************************)
(* Part II: scan_for_snmp_devices                                          *)
(***************************************************************************)
\* Bounds of the scan: length of the network list, largest limit_hosts and
\* max_threads tried, and how much of each sweep is walked (the source walks
\* hosts 1..254 of a /24 base, an 8 x 7 grid of a /16 base, hosts 1..19 of
\* any other base).
MaxNets     == 2
MaxLimit    == 3
MaxThreads  == 3
Last24      == 11
Last8       == 2
GridSubnets == 2
GridHosts   == 2

NoLimit == -1                                  \* limit_hosts = None
SUBNETS == << 0, 1, 2, 5, 10, 20, 50, 100 >>   \* `for subnet in [...]`
HOSTS16 == << 1, 10, 20, 50, 100, 200, 254 >>  \* `for host in [...]`

\* network bases as octet lists: "10.0.0." (/24), "10.0." (/16), "10." (/8)
Bases == { <<10, 0, 0>>, <<10, 0>>, <<10>> }
Networks == { [base |-> b, adapter |-> "eth"] : b \in Bases }
NetworkLists == UNION { [1 .. n -> Networks] : n \in 0 .. MaxNets }

\* the hosts that run an SNMP agent (each probe of one may still time out)
LiveHosts == { <<10, 0, 0, 1>>, <<10, 0, 1, 10>> }

(***************************************************************************)
(* Character strings.  The values scan_ip inspects are lists of            *)
(* characters, so that lower(), `in` and startswith() are computed.        *)
(***************************************************************************)
NoValue == << None >>                      \* Python None among character strings
TruthyS(v) == v # NoValue /\ v # << >>     \* truthiness of an optional string
OrS(a, b) == IF TruthyS(a) THEN a ELSE b   \* `a or b`

UpperCase == << "A", "B", "C", "D", "E", "F", "G", "H", "I", "J", "K", "L", "M", "N", "O", "P", "Q", "R", "S", "T", "U", "V", "W", "X", "Y", "Z" >>
LowerCase == << "a", "b", "c", "d", "e", "f", "g", "h", "i", "j", "k", "l", "m", "n", "o", "p", "q", "r", "s", "t", "u", "v", "w", "x", "y", "z" >>

\* str.lower()
LowerChar(c) == IF \E i \in 1 .. 26 : UpperCase[i] = c
                THEN LowerCase[CHOOSE i \in 1 .. 26 : UpperCase[i] = c]
                ELSE c
Lower(s) == [i \in 1 .. Len(s) |-> LowerChar(s[i])]

\* `kw in s`
Contains(s, kw) == \E i \in 0 .. (Len(s) - Len(kw)) : SubSeq(s, i + 1, i + Len(kw)) = kw
\* s.startswith(p)
StartsWith(s, p) == Len(s) >= Len(p) /\ SubSeq(s, 1, Len(p)) = p

\* " ".join(ws)
RECURSIVE Join(_)
Join(ws) == IF Len(ws) = 0 THEN << >>
            ELSE IF Len(ws) = 1 THEN ws[1]
            ELSE ws[1] \o << " " >> \o Join(Tail(ws))

SimulatedS == << "S", "i", "m", "u", "l", "a", "t", "e", "d", " ", "S", "N", "M", "P", " ", "R", "e", "s", "p", "o", "n", "s", "e" >>
UnknownDevice == << "U", "n", "k", "n", "o", "w", "n", " ", "D", "e", "v", "i", "c", "e" >>
PROXIM_ENTERPRISE_OID == << "1", ".", "3", ".", "6", ".", "1", ".", "4", ".", "1", ".", "8", "4", "1" >>

\* words of the descriptions the agents of the model report
S_Proxim   == << "P", "r", "o", "x", "i", "m" >>
S_Tsunami  == << "T", "s", "u", "n", "a", "m", "i" >>
S_RADIO    == << "R", "A", "D", "I", "O" >>
S_Switch   == << "S", "w", "i", "t", "c", "h" >>
S_Wireless == << "W", "i", "r", "e", "l", "e", "s", "s" >>
S_Bridge   == << "B", "r", "i", "d", "g", "e" >>
S_Linux    == << "L", "i", "n", "u", "x" >>
S_radio    == << "r", "a", "d", "i", "o" >>
S_Ticks    == << "4", "7", "1", "1" >>
S_Name     == << "a", "p", "-", "1" >>

\* sysObjectID values: the vendor's subtree, another vendor's, and an
\* enterprise number that merely begins with the vendor's digits
OID_Proxim  == << "1", ".", "3", ".", "6", ".", "1", ".", "4", ".", "1", ".", "8", "4", "1", ".", "1", ".", "1" >>
OID_Cisco   == << "1", ".", "3", ".", "6", ".", "1", ".", "4", ".", "1", ".", "9", ".", "1", ".", "1" >>
OID_Ent8410 == << "1", ".", "3", ".", "6", ".", "1", ".", "4", ".", "1", ".", "8", "4", "1", "0", ".", "2" >>

(***************************************************************************)
(* scan_ip: the probe thread body                                          *)
(***************************************************************************)
\* what one host returns for the six OIDs scan_ip asks for, and whether an
\* exception is raised inside the thread
Agent(descr, prod, uptime, name, pname, objectid, raises) ==
    [descr |-> descr, prod |-> prod, uptime |-> uptime, name |-> name,
     pname |-> pname, objectid |-> objectid, raises |-> raises]

\* every snmp_get times out / an exception is raised while probing
TimedOut == Agent(NoValue, NoValue, NoValue, NoValue, NoValue, NoValue, FALSE)
Raising  == Agent(NoValue, NoValue, NoValue, NoValue, NoValue, NoValue, TRUE)
Faults   == {TimedOut, Raising}

\* sysDescr, then productDescr, then sysUpTime
LivenessValue(r) ==
    LET d1 == r.descr
        d2 == IF ~TruthyS(d1) THEN r.prod ELSE d1
        d3 == IF ~TruthyS(d2) THEN r.uptime ELSE d2
    IN  d3

\* `if sys_descr and sys_descr != "Simulated SNMP Response"`
Responsive(r) == ~r.raises /\ TruthyS(LivenessValue(r)) /\ LivenessValue(r) # SimulatedS

\* `isinstance(sys_objectid, str) and sys_objectid.startswith(PROXIM_ENTERPRISE_OID)`
is_proxim(sys_objectid) == StartsWith(sys_objectid, PROXIM_ENTERPRISE_OID)

\* `is_proxim or ('radio' in sys_descr.lower())`
is_station_radio_descr_first(sys_descr, sys_objectid) ==
    IF Contains(Lower(sys_descr), Lower(S_Switch)) THEN FALSE ELSE is_proxim(sys_objectid)
is_station_radio(sys_descr, sys_objectid) ==
    is_proxim(sys_objectid) \/ Contains(Lower(sys_descr), S_radio)

\* `sys_descr[:100] + "..." if len(sys_descr) > 100 else sys_descr`
Description(s) == IF Len(s) > 100 THEN SubSeq(s, 1, 100) \o << ".", ".", "." >> ELSE s

\* the dict appended to `devices`
Device(ip, adapter, r) ==
    LET sys_descr    == LivenessValue(r)
        sys_name     == OrS(r.name, OrS(r.pname, UnknownDevice))
        sys_objectid == OrS(r.objectid, << >>)
        radio        == is_station_radio(sys_descr, sys_objectid)
    IN  [ip |-> ip,
         description |-> Description(sys_descr),
         system_name |-> sys_name,
         device_type |-> IF is_proxim(sys_objectid) THEN "Station Radio" ELSE "Unknown",
         is_station_radio |-> radio,
         network |-> adapter,
         hint |-> IF radio THEN "station_radio" ELSE "other",
         enterprise |-> sys_objectid]

\* `except Exception: pass`
scan_ip_except_reset(devs) == << >>
scan_ip_except(devs) == devs

\* `devices` after scan_ip(ip, network_info) against agent r
scan_ip(ip, adapter, r, devs) ==
    IF r.raises THEN scan_ip_except(devs)
    ELSE IF Responsive(r) THEN Append(devs, Device(ip, adapter, r))
    ELSE devs

\* how the probe thread ended
Outcome(r) == IF r.raises THEN "exception"
              ELSE IF Responsive(r) THEN "answer" ELSE "timeout"

\* the agents of the hosts that run one
ScanAgents ==
    { Agent(Join(<< S_Proxim, S_Tsunami >>), NoValue, NoValue, NoValue, NoValue, NoValue, FALSE),
      Agent(S_Switch, NoValue, NoValue, S_Name, NoValue, OID_Proxim, FALSE),
      Agent(<< >>, NoValue, S_Ticks, NoValue, S_Name, OID_Cisco, FALSE),
      Agent(SimulatedS, NoValue, NoValue, NoValue, NoValue, NoValue, FALSE) }

\* `scan_range`: range(1, 255) for a /24 base, range(1, 20) otherwise
LastHost(base) == IF Len(base) = 3 THEN Last24 ELSE Last8

\* `if len(threads) >= max_threads`
BatchFull_late(n, m) == n > m
BatchFull(n, m) == n >= m

\* `if limit_hosts is not None and attempted_hosts >= limit_hosts`
LimitReached(attempted, limit) == limit # NoLimit /\ attempted >= limit

Thread(ip, n) == [ip |-> ip, net |-> n, done |-> FALSE, outcome |-> "pending"]

ScanStart == [pc |-> "net", n |-> 1, host |-> 1, si |-> 1, hi |-> 1, j |-> 1,
              ret |-> "net", attempted_hosts |-> 0, stop_scanning |-> FALSE,
              returned |-> FALSE]

ScanIdle ==
    /\ networks = << >>
    /\ max_threads = 0
    /\ limit_hosts = NoLimit
    /\ sc = [ScanStart EXCEPT !.pc = "off"]
    /\ threads = << >>
    /\ devices = << >>
    /\ started = << >>

\* scan_for_snmp_devices(networks, max_threads, limit_hosts) has been called
ScanInit ==
    /\ networks \in NetworkLists
    /\ max_threads \in 0 .. MaxThreads
    /\ limit_hosts \in {NoLimit} \cup (0 .. MaxLimit)
    /\ sc = ScanStart
    /\ threads = << >>
    /\ devices = << >>
    /\ started = << >>

\* `for network in networks: if stop_scanning: break` and the choice of sweep
ScanNetwork ==
    /\ sc.pc = "net"
    /\ IF sc.n > Len(networks) \/ sc.stop_scanning
       THEN sc' = [sc EXCEPT !.pc = "final_join", !.j = 1]
       ELSE IF Len(networks[sc.n].base) = 2
            THEN sc' = [sc EXCEPT !.pc = "grid", !.si = 1, !.hi = 1]
            ELSE sc' = [sc EXCEPT !.pc = "host", !.host = 1]
    /\ UNCHANGED <<networks, max_threads, limit_hosts, threads, devices, started>>

\* one iteration of `for host in scan_range` (/24 and /8 bases)
ScanHost ==
    /\ sc.pc = "host"
    /\ LET base == networks[sc.n].base
           ip   == Append(base, sc.host)
       IN  IF sc.host > LastHost(base)
           THEN /\ sc' = [sc EXCEPT !.pc = "net", !.n = sc.n + 1]
                /\ UNCHANGED <<threads, started>>
           ELSE IF LimitReached(sc.attempted_hosts, limit_hosts)
           THEN /\ sc' = [sc EXCEPT !.stop_scanning = TRUE, !.pc = "net", !.n = sc.n + 1]
                /\ UNCHANGED <<threads, started>>
           ELSE /\ threads' = Append(threads, Thread(ip, sc.n))
                /\ started' = Append(started, ip)
                /\ sc' = [sc EXCEPT !.attempted_hosts = sc.attempted_hosts + 1,
                                     !.host = sc.host + 1,
                                     !.pc = IF BatchFull(Len(threads) + 1, max_threads)
                                            THEN "join" ELSE "host",
                                     !.ret = "host", !.j = 1]
    /\ UNCHANGED <<networks, max_threads, limit_hosts, devices>>

\* one iteration of the subnet x host grid of a /16 base, then `continue`
ScanGrid ==
    /\ sc.pc = "grid"
    /\ LET base == networks[sc.n].base
           ip   == base \o << SUBNETS[sc.si], HOSTS16[sc.hi] >>
           last == sc.si = GridSubnets /\ sc.hi = GridHosts
           next == IF last THEN [sc EXCEPT !.pc = "net", !.n = sc.n + 1]
                   ELSE IF sc.hi = GridHosts
                        THEN [sc EXCEPT !.si = sc.si + 1, !.hi = 1]
                        ELSE [sc EXCEPT !.hi = sc.hi + 1]
       IN  /\ threads' = Append(threads, Thread(ip, sc.n))
           /\ started' = Append(started, ip)
           /\ sc' = IF BatchFull(Len(threads) + 1, max_threads)
                    THEN [next EXCEPT !.pc = "join", !.ret = next.pc, !.j = 1]
                    ELSE next
    /\ UNCHANGED <<networks, max_threads, limit_hosts, devices>>

\* `t.join()` of one thread of the list (batch join and final join)
JoinThread ==
    /\ sc.pc \in {"join", "final_join"}
    /\ sc.j <= Len(threads)
    /\ threads[sc.j].done
    /\ sc' = [sc EXCEPT !.j = sc.j + 1]
    /\ UNCHANGED <<networks, max_threads, limit_hosts, threads, devices, started>>

\* `threads = []` after the batch join
JoinDone ==
    /\ sc.pc = "join"
    /\ sc.j > Len(threads)
    /\ threads' = << >>
    /\ sc' = [sc EXCEPT !.pc = sc.ret, !.j = 1]
    /\ UNCHANGED <<networks, max_threads, limit_hosts, devices, started>>

\* `return devices` after the final join
ScanReturn ==
    /\ sc.pc = "final_join"
    /\ sc.j > Len(threads)
    /\ sc' = [sc EXCEPT !.pc = "done", !.returned = TRUE]
    /\ UNCHANGED <<networks, max_threads, limit_hosts, threads, devices, started>>

\* the probe thread scan_ip(ip, network) runs to its end: a host of Live
\* answers as one of Answers, any other host times out or the probe raises
ScanIp(k, Live, Answers) ==
    /\ k \in 1 .. Len(threads)
    /\ ~threads[k].done
    /\ \E r \in (IF threads[k].ip \in Live THEN Answers ELSE Faults) :
         /\ threads' = [threads EXCEPT ![k].done = TRUE, ![k].outcome = Outcome(r)]
         /\ devices' = scan_ip(threads[k].ip, networks[threads[k].net].adapter, r, devices)
    /\ UNCHANGED <<networks, max_threads, limit_hosts, sc, started>>

\* `c.get(key, False)` on a candidate dict
GetFlag(c, key) == IF key \in DOMAIN c THEN c[key] ELSE FALSE

\* the hard-coded entry of the SNMP discovery endpoints
KnownStationRadio ==
    [ip |-> <<10, 205, 5, 20>>, hint |-> "station_radio",
     description |-> "Station Radio Device (detected via ARP scan, SNMP disabled)",
     device_type |-> "Station Radio",
     system_name |-> "Station Radio at 10.205.5.20",
     network |-> "Ethernet Network",
     is_real_station_radio |-> TRUE,
     status |-> "online",
     discovery_method |-> "manual_arp_detection"]

\* `station_radio_count = len([c for c in candidates if c.get("is_real_station_radio", False)])`
station_radio_count(candidates) ==
    Cardinality({ i \in 1 .. Len(candidates) : GetFlag(candidates[i], "is_real_station_radio") })

\* discover_devices of simple_server.py and test_discover_devices of app.py,
\* after `candidates = scan_for_snmp_devices(networks)` has returned
DiscoverDevices ==
    /\ sc.pc = "done" /\ call = NoCall
    /\ call' = [fn |-> "discover_devices",
                candidates |-> IF station_radio_count(devices) = 0
                               THEN << KnownStationRadio >> \o devices
                               ELSE devices]

NextScan ==
    \/ ScanNetwork /\ UNCHANGED <<regVars, call>>
    \/ ScanHost /\ UNCHANGED <<regVars, call>>
    \/ ScanGrid /\ UNCHANGED <<regVars, call>>
    \/ JoinThread /\ UNCHANGED <<regVars, call>>
    \/ JoinDone /\ UNCHANGED <<regVars, call>>
    \/ ScanReturn /\ UNCHANGED <<regVars, call>>
    \/ \E k \in 1 .. Len(threads) :
          ScanIp(k, LiveHosts, ScanAgents \cup Faults) /\ UNCHANGED <<regVars, call>>
    \/ DiscoverDevices /\ UNCHANGED <<regVars, scanVars>>

\* one call of scan_for_snmp_devices with its probe threads
InitScan == RegInit /\ ScanInit /\ call = NoCall
SpecScan == InitScan /\ [][NextScan]_vars



(***************************************************************************)
(* The scan of the range "10.0.0." with limit_hosts = 10 in which only the *)
(* host 10.0.0.5 runs an agent; the agent answers sysDescr and no other    *)
(* OID, with a description containing "Proxim Tsunami".                    *)
(***************************************************************************)
E2ELive   == { << 10, 0, 0, 5 >> }
E2EAgents ==
    { Agent(d, NoValue, NoValue, NoValue, NoValue, NoValue, FALSE) :
        d \in { Join(<< S_Proxim, S_Tsunami >>),
                Join(<< S_Proxim, S_Tsunami, S_RADIO >>) } }

E2EInit ==
    /\ networks = << [base |-> << 10, 0, 0 >>, adapter |-> "eth"] >>
    /\ max_threads \in (1 .. MaxThreads) \cup {20}
    /\ limit_hosts = 10
    /\ sc = ScanStart
    /\ threads = << >>
    /\ devices = << >>
    /\ started = << >>

InitE2E == RegInit /\ E2EInit /\ call = NoCall
NextE2E ==
    \/ ScanNetwork /\ UNCHANGED <<regVars, call>>
    \/ ScanHost /\ UNCHANGED <<regVars, call>>
    \/ JoinThread /\ UNCHANGED <<regVars, call>>
    \/ JoinDone /\ UNCHANGED <<regVars, call>>
    \/ ScanReturn /\ UNCHANGED <<regVars, call>>
    \/ \E k \in 1 .. Len(threads) :
          ScanIp(k, E2ELive, E2EAgents) /\ UNCHANGED <<regVars, call>>
SpecE2E == InitE2E /\ [][NextE2E]_vars

(***************************************************************************)
(* Part III: the probe calls on their own                                  *)
(***************************************************************************)
\* scan_ip applied to one agent.  The sysDescr texts are one to MaxWords
\* words of the vocabulary.
MaxWords == 2

Vocabulary == { S_Proxim, S_Tsunami, S_RADIO, S_Switch, S_Wireless, S_Bridge, S_Linux }
Descriptions == { Join(ws) : ws \in UNION { [1 .. n -> Vocabulary] : n \in 1 .. MaxWords } }
ObjectIdValues == { NoValue, << >>, OID_Proxim, OID_Cisco, OID_Ent8410 }

ClassifyAgents ==
    { Agent(d, p, NoValue, n, NoValue, o, FALSE) :
        d \in Descriptions \cup {<< >>},
        p \in { NoValue, Join(<< S_Proxim, S_RADIO >>) },
        n \in { NoValue, S_Name },
        o \in ObjectIdValues }

ClassifyIp == << 10, 0, 0, 1 >>

ClassifyInit ==
    \E r \in ClassifyAgents :
        call = [fn |-> "scan_ip", agent |-> r, devices |-> << >>, done |-> FALSE]

\* scan_ip(ip, network_info) with an empty `devices`
ClassifyStep ==
    /\ call.fn = "scan_ip" /\ ~call.done
    /\ call' = [call EXCEPT !.devices = scan_ip(ClassifyIp, "eth", call.agent, << >>),
                            !.done = TRUE]

InitClassify == RegInit /\ ScanIdle /\ ClassifyInit
NextClassify ==
    \/ ClassifyStep /\ UNCHANGED <<regVars, scanVars>>
SpecClassify == InitClassify /\ [][NextClassify]_vars

(***************************************************************************)
(* snmp_get of snmp_client.py, in both builds: with pysnmp importable      *)
(* (lines 60-99) and the raw UDP fallback (lines 274-293).  Times are in   *)
(* hundredths of a second.                                                 *)
(***************************************************************************)
MaxRetryInput == 6     \* largest retry count a caller or the environment asks for

Nothing == << >>                   \* an argument left at None
Some(v) == << v >>                 \* an argument that is given
IsSome(a) == a # Nothing

\* an environment variable: unset, set to text that does not parse, or a number
EnvUnset  == [set |-> FALSE, parses |-> FALSE, v |-> 0]
EnvJunk   == [set |-> TRUE,  parses |-> FALSE, v |-> 0]
EnvNum(n) == [set |-> TRUE,  parses |-> TRUE,  v |-> n]

Min(a, b) == IF a < b THEN a ELSE b
Max(a, b) == IF a > b THEN a ELSE b

\* `max(0.1, min(val, 10.0))`, `except Exception: return default`
ParseTimeoutEnv(e, default) ==
    IF e.set /\ ~e.parses THEN default
    ELSE Max(10, Min(IF e.set THEN e.v ELSE default, 1000))

\* `max(0, min(val, 5))`, `except Exception: return default`
ParseRetriesEnv(e, default) ==
    IF e.set /\ ~e.parses THEN default
    ELSE Max(0, Min(IF e.set THEN e.v ELSE default, 5))

\* str.strip() on the version texts of the model
Strip(v) == IF v = " 2c " THEN "2c" ELSE v

\* `versions = [...]` from `forced`
Versions(forced) ==
    IF forced \in {"2c", "2", "v2c"} THEN << "2c" >>
    ELSE IF forced \in {"1", "v1"} THEN << "1" >>
    ELSE << "2c", "1" >>

\* `if errorIndication or errorStatus: continue`
TryNextVersion(outcome) == outcome \in {"errorIndication", "errorStatus"}

TimeoutArgs == { Nothing, Some(5), Some(1500) }
RetryArgs   == { Nothing, Some(-1), Some(MaxRetryInput) }
VersionArgs == { None, "", "1", "v2c", " 2c ", "3" }
PortArgs    == { 0, 1161 }
EnvTimeouts == { EnvUnset, EnvJunk, EnvNum(5), EnvNum(1500) }
EnvRetries  == { EnvUnset, EnvNum(-1), EnvNum(MaxRetryInput) }
EnvVersions == { "", "1", "2c" }
Builds      == { "pysnmp", "raw" }

\* what one request over the wire ends in
PysnmpOutcomes == { "value", "errorIndication", "errorStatus", "exception" }
RawOutcomes    == { "value", "empty", "exception" }

GetInit ==
    \E b \in Builds, t \in TimeoutArgs, r \in RetryArgs, v \in VersionArgs,
       p \in PortArgs, et \in EnvTimeouts, er \in EnvRetries, ev \in EnvVersions :
        call = [fn |-> "snmp_get", build |-> b, pc |-> "start",
                timeout |-> t, retries |-> r, version |-> v, port |-> p,
                METRO_SNMP_TIMEOUT |-> et, METRO_SNMP_RETRIES |-> er,
                METRO_SNMP_VERSION |-> ev,
                eff_timeout |-> 0, eff_retries |-> 0, eff_port |-> 0,
                versions |-> << >>, i |-> 1, attempts |-> << >>, result |-> None]

\* lines 69-80: the effective values and the version list
GetBeginPysnmp ==
    /\ call.fn = "snmp_get" /\ call.build = "pysnmp" /\ call.pc = "start"
    /\ call' = [call EXCEPT
         !.eff_timeout = IF IsSome(call.timeout) THEN call.timeout[1]
                         ELSE ParseTimeoutEnv(call.METRO_SNMP_TIMEOUT, 200),
         !.eff_retries = IF IsSome(call.retries) THEN call.retries[1]
                         ELSE ParseRetriesEnv(call.METRO_SNMP_RETRIES, 1),
         !.eff_port = IF call.port # 0 THEN call.port ELSE EnvPort,
         !.versions = Versions(Strip(Or(call.version, call.METRO_SNMP_VERSION))),
         !.pc = "loop"]

\* lines 82-95: one iteration of `for ver in versions`
GetAttemptPysnmp ==
    /\ call.fn = "snmp_get" /\ call.build = "pysnmp" /\ call.pc = "loop"
    /\ call.i <= Len(call.versions)
    /\ \E o \in PysnmpOutcomes, val \in {"", "descrA"} :
         LET a == [ver |-> call.versions[call.i], timeout |-> call.eff_timeout,
                   retries |-> call.eff_retries, port |-> call.eff_port,
                   outcome |-> o]
             log == Append(call.attempts, a)
         IN  call' = IF TryNextVersion(o)
                     THEN [call EXCEPT !.attempts = log, !.i = call.i + 1]
                     ELSE IF o = "value"
                     THEN [call EXCEPT !.attempts = log, !.result = val, !.pc = "done"]
                     ELSE [call EXCEPT !.attempts = log, !.result = None, !.pc = "done"]

\* lines 276-281 of the fallback: the defaults; the request is always v2c
GetBeginRaw ==
    /\ call.fn = "snmp_get" /\ call.build = "raw" /\ call.pc = "start"
    /\ call' = [call EXCEPT
         !.eff_timeout = IF IsSome(call.timeout) THEN call.timeout[1] ELSE 200,
         !.eff_retries = IF IsSome(call.retries) THEN call.retries[1] ELSE 1,
         !.eff_port = IF call.port # 0 THEN call.port ELSE EnvPort,
         !.versions = << "2c" >>,
         !.pc = "loop"]

\* lines 282-292: one iteration of `for _ in range(retries + 1)`
GetAttemptRaw ==
    /\ call.fn = "snmp_get" /\ call.build = "raw" /\ call.pc = "loop"
    /\ call.i <= call.eff_retries + 1
    /\ \E o \in RawOutcomes :
         LET a == [ver |-> "2c", timeout |-> call.eff_timeout,
                   retries |-> call.eff_retries, port |-> call.eff_port,
                   outcome |-> o]
             log == Append(call.attempts, a)
         IN  call' = IF o = "value"
                     THEN [call EXCEPT !.attempts = log, !.result = "descrA", !.pc = "done"]
                     ELSE [call EXCEPT !.attempts = log, !.i = call.i + 1]

\* `return None` after the loop
GetReturnNone ==
    /\ call.fn = "snmp_get" /\ call.pc = "loop"
    /\ call.i > (IF call.build = "pysnmp" THEN Len(call.versions) ELSE call.eff_retries + 1)
    /\ call' = [call EXCEPT !.result = None, !.pc = "done"]

InitGet == RegInit /\ ScanIdle /\ GetInit
NextGet ==
    \/ GetBeginPysnmp /\ UNCHANGED <<regVars, scanVars>>
    \/ GetAttemptPysnmp /\ UNCHANGED <<regVars, scanVars>>
    \/ GetBeginRaw /\ UNCHANGED <<regVars, scanVars>>
    \/ GetAttemptRaw /\ UNCHANGED <<regVars, scanVars>>
    \/ GetReturnNone /\ UNCHANGED <<regVars, scanVars>>
SpecGet == InitGet /\ [][NextGet]_vars

(***************************************************************************)
(* probe_snmp_community of real_backend.py (POST /snmp/probe-community).   *)
(* The device is an agent fixed for the call: the communities it accepts   *)
(* and what snmp_get returns (or raises) for each OID.                     *)
(***************************************************************************)
MaxComms == 2          \* longest community list a request carries

SYS_OBJECTID == "1.3.6.1.2.1.1.2.0"

default_comms ==
    << "public", "private", "admin", "manager", "read", "write", "monitor", "snmp",
       "test", "guest", "default", "public1", "private1", "public123", "private123",
       "cisco", "proxim", "tsunami", "metro", "env" >>

std_oids      == << SYS_NAME, SYS_OBJECTID, SYS_UPTIME >>
proxim_oids   == << PROXIM_PRODUCT_DESCR, PROXIM_SYSTEM_NAME >>
fallback_oids == std_oids \o proxim_oids

\* `[primary_oid] + fallback_oids` with `primary_oid = request.oid or sysDescr`
CommunityOids(oid) == << Or(oid, SYS_DESCR) >> \o fallback_oids

\* `communities = request.communities or default_comms`
Communities(cs) == IF cs = << >> THEN default_comms ELSE cs

\* `if val and val != "Simulated SNMP Response"`
Matched(val) == Truthy(val) /\ val # Simulated

\* after `successes.append(...)`: `break`, on to the next community
AfterSuccess_return(ci, n) == n + 1
AfterSuccess(ci, n) == ci + 1

ProbedOids == { SYS_DESCR, SYS_NAME, SYS_OBJECTID, SYS_UPTIME,
                PROXIM_PRODUCT_DESCR, PROXIM_SYSTEM_NAME }
CommunityNames == { "public", "private", "cisco" }

\* what the device returns per OID to a community it accepts: every pattern
\* of answered and unanswered OIDs, and three with an empty value, the
\* placeholder or an exception on sysDescr
ReplyPatterns ==
    [ProbedOids -> {None, "descrA"}]
      \cup { [o \in ProbedOids |-> IF o = SYS_DESCR THEN x
                                   ELSE IF o = SYS_UPTIME THEN "4711" ELSE None] :
               x \in {"", Simulated, "raise"} }

CommunityAgents ==
    { [accepts |-> a, reply |-> f] : a \in SUBSET {"public", "private"}, f \in ReplyPatterns }

\* snmp_get(request.ip, comm, oid, ...) against the agent
AgentReply(agent, comm, oid) == IF comm \in agent.accepts THEN agent.reply[oid] ELSE None

CommunityRequests ==
    { [communities |-> cs, oid |-> o, port |-> p.port, version |-> p.version,
       timeout_secs |-> p.timeout_secs, retries |-> p.retries] :
        cs \in UNION { [1 .. n -> CommunityNames] : n \in 0 .. MaxComms },
        o \in {None, SYS_NAME},
        p \in { [port |-> 0, version |-> None, timeout_secs |-> Nothing, retries |-> Nothing],
                [port |-> 1161, version |-> "1", timeout_secs |-> Some(1500),
                 retries |-> Some(MaxRetryInput)] } }

CommunityInit ==
    \E req \in CommunityRequests, ag \in CommunityAgents :
        call = [fn |-> "probe_snmp_community", pc |-> "start", request |-> req,
                agent |-> ag, communities |-> << >>, oids |-> << >>,
                ci |-> 1, oi |-> 1, successes |-> << >>, calls |-> << >>,
                response |-> [matches |-> << >>, count |-> 0]]

\* lines 309-327
CommunityBegin ==
    /\ call.fn = "probe_snmp_community" /\ call.pc = "start"
    /\ call' = [call EXCEPT !.communities = Communities(call.request.communities),
                            !.oids = CommunityOids(call.request.oid),
                            !.pc = "loop"]

\* lines 331-347: one snmp_get of the inner loop
CommunityProbe ==
    /\ call.fn = "probe_snmp_community" /\ call.pc = "loop"
    /\ call.ci <= Len(call.communities)
    /\ LET comm == call.communities[call.ci]
           oid  == call.oids[call.oi]
           val  == AgentReply(call.agent, comm, oid)
           log  == Append(call.calls,
                     [community |-> comm, oid |-> oid, val |-> val,
                      timeout |-> call.request.timeout_secs,
                      retries |-> call.request.retries,
                      version |-> call.request.version,
                      port |-> IF call.request.port # 0 THEN call.request.port ELSE 161])
       IN  IF val # "raise" /\ Matched(val)
           THEN call' = [call EXCEPT
                    !.calls = log,
                    !.successes = Append(@, [community |-> comm, oid |-> oid, value |-> val]),
                    !.ci = AfterSuccess(call.ci, Len(call.communities)), !.oi = 1]
           ELSE IF call.oi = Len(call.oids)
           THEN call' = [call EXCEPT !.calls = log, !.ci = call.ci + 1, !.oi = 1]
           ELSE call' = [call EXCEPT !.calls = log, !.oi = call.oi + 1]

\* lines 350-358
CommunityReturn ==
    /\ call.fn = "probe_snmp_community" /\ call.pc = "loop"
    /\ call.ci > Len(call.communities)
    /\ call' = [call EXCEPT !.pc = "done",
                            !.response = [matches |-> call.successes,
                                          count |-> Len(call.successes)]]

InitCommunity == RegInit /\ ScanIdle /\ CommunityInit
NextCommunity ==
    \/ CommunityBegin /\ UNCHANGED <<regVars, scanVars>>
    \/ CommunityProbe /\ UNCHANGED <<regVars, scanVars>>
    \/ CommunityReturn /\ UNCHANGED <<regVars, scanVars>>
SpecCommunity == InitCommunity /\ [][NextCommunity]_vars

(***************************************************************************)
(* probe_snmp_v3 of real_backend.py (POST /snmp/probe-v3).  The device is  *)
(* an agent fixed for the call: the users it knows, the security level it  *)
(* demands, and the OIDs it answers.                                       *)
(***************************************************************************)
MaxUsers == 2          \* longest username list a request carries

V3UserNames == { "admin", "operator", "guest" }

\* lists without repetition
Distinct(seq) == \A i, j \in 1 .. Len(seq) : i # j => seq[i] # seq[j]
UserLists ==
    { us \in UNION { [1 .. n -> V3UserNames] : n \in 0 .. MaxUsers } : Distinct(us) }

\* `request.xs or [...]`
ListOr(xs, default) == IF xs = << >> THEN default ELSE xs

\* `if p_proto and not (a_proto and p_key): continue`
InvalidCombo_key_only(a_proto, p_key, p_proto) == Truthy(p_proto) /\ ~Truthy(p_key)
InvalidCombo(a_proto, p_key, p_proto) ==
    Truthy(p_proto) /\ ~(Truthy(a_proto) /\ Truthy(p_key))

\* the six OIDs of a v3 probe
V3Oids(oid) == << Or(oid, SYS_DESCR), SYS_NAME, SYS_OBJECTID, SYS_UPTIME,
                  PROXIM_PRODUCT_DESCR, PROXIM_SYSTEM_NAME >>

V3Requests ==
    { [usernames |-> us, auth_keys |-> ak, priv_keys |-> pk, auth_protocols |-> ap,
       priv_protocols |-> pp, oid |-> o, port |-> 0] :
        us \in UserLists,
        ak \in { << >>, << "ak" >> },
        pk \in { << >>, << "pk" >>, << "", "pk" >> },
        ap \in { << >>, << "SHA" >> },
        pp \in { << >>, << "AES" >>, << None, "AES" >> },
        o  \in { None, SYS_NAME } }

V3Agents ==
    { [users |-> u, level |-> l, reply |-> f] :
        u \in { {"admin"}, {"admin", "operator"} },
        l \in { "noAuthNoPriv", "authNoPriv", "authPriv" },
        f \in { [o \in ProbedOids |-> "descrA"],
                [o \in ProbedOids |-> IF o = SYS_UPTIME THEN "4711" ELSE None],
                [o \in ProbedOids |-> IF o = SYS_DESCR THEN "" ELSE "descrA"] } }

\* snmp_get_v3(request.ip, oid, username=..., ...) against the agent
AgentReplyV3(agent, user, a_key, p_key, a_proto, p_proto, oid) ==
    LET auth == Truthy(a_proto) /\ Truthy(a_key)
        priv == auth /\ Truthy(p_proto) /\ Truthy(p_key)
        ok   == /\ user \in agent.users
                /\ agent.level = "authNoPriv" => auth
                /\ agent.level = "authPriv" => priv
    IN  IF ok THEN agent.reply[oid] ELSE None

V3Init ==
    \E req \in V3Requests, ag \in V3Agents :
        call = [fn |-> "probe_snmp_v3", pc |-> "start", request |-> req, agent |-> ag,
                usernames |-> << >>, auth_keys |-> << >>, priv_keys |-> << >>,
                auth_protocols |-> << >>, priv_protocols |-> << >>, oids |-> << >>,
                ui |-> 1, aki |-> 1, pki |-> 1, api |-> 1, ppi |-> 1, oi |-> 1,
                matches |-> << >>, calls |-> << >>, skipped |-> << >>,
                response |-> [matches |-> << >>, count |-> 0]]

\* lines 368-384
V3Begin ==
    /\ call.fn = "probe_snmp_v3" /\ call.pc = "start"
    /\ call' = [call EXCEPT
         !.usernames = ListOr(call.request.usernames,
                              << "admin", "manager", "snmp", "operator" >>),
         !.auth_keys = ListOr(call.request.auth_keys, << None >>),
         !.priv_keys = ListOr(call.request.priv_keys, << None >>),
         !.auth_protocols = ListOr(call.request.auth_protocols, << None, "MD5", "SHA" >>),
         !.priv_protocols = ListOr(call.request.priv_protocols, << None, "DES", "AES" >>),
         !.oids = V3Oids(call.request.oid),
         !.pc = "loop"]

\* the five nested `for` loops move on to the next combination
NextCombo(c) ==
    IF c.ppi < Len(c.priv_protocols) THEN [c EXCEPT !.ppi = @ + 1, !.oi = 1]
    ELSE IF c.api < Len(c.auth_protocols) THEN [c EXCEPT !.api = @ + 1, !.ppi = 1, !.oi = 1]
    ELSE IF c.pki < Len(c.priv_keys)
         THEN [c EXCEPT !.pki = @ + 1, !.api = 1, !.ppi = 1, !.oi = 1]
    ELSE IF c.aki < Len(c.auth_keys)
         THEN [c EXCEPT !.aki = @ + 1, !.pki = 1, !.api = 1, !.ppi = 1, !.oi = 1]
    ELSE [c EXCEPT !.ui = @ + 1, !.aki = 1, !.pki = 1, !.api = 1, !.ppi = 1, !.oi = 1]

\* `break` out of `for oid in oids` after a match
AfterMatch(c) == NextCombo(c)

Combo(c) == [username |-> c.usernames[c.ui], auth_key |-> c.auth_keys[c.aki],
             priv_key |-> c.priv_keys[c.pki], auth_protocol |-> c.auth_protocols[c.api],
             priv_protocol |-> c.priv_protocols[c.ppi]]

\* lines 392-393: an invalid combination is passed over
V3Skip ==
    /\ call.fn = "probe_snmp_v3" /\ call.pc = "loop"
    /\ call.ui <= Len(call.usernames)
    /\ LET t == Combo(call)
       IN  /\ InvalidCombo(t.auth_protocol, t.priv_key, t.priv_protocol)
           /\ call' = NextCombo([call EXCEPT !.skipped = Append(@, t)])

\* lines 394-416: one snmp_get_v3 of `for oid in oids`
V3Probe ==
    /\ call.fn = "probe_snmp_v3" /\ call.pc = "loop"
    /\ call.ui <= Len(call.usernames)
    /\ LET t   == Combo(call)
           oid == call.oids[call.oi]
           val == AgentReplyV3(call.agent, t.username, t.auth_key, t.priv_key,
                               t.auth_protocol, t.priv_protocol, oid)
           rec == [username |-> t.username, auth_key |-> t.auth_key,
                   priv_key |-> t.priv_key, auth_protocol |-> t.auth_protocol,
                   priv_protocol |-> t.priv_protocol, oid |-> oid, value |-> val]
           c1  == [call EXCEPT !.calls = Append(@, rec)]
       IN  /\ ~InvalidCombo(t.auth_protocol, t.priv_key, t.priv_protocol)
           /\ call' = IF Truthy(val)
                      THEN AfterMatch([c1 EXCEPT !.matches = Append(@, rec)])
                      ELSE IF call.oi = Len(call.oids) THEN NextCombo(c1)
                      ELSE [c1 EXCEPT !.oi = @ + 1]

\* lines 418-424
V3Return ==
    /\ call.fn = "probe_snmp_v3" /\ call.pc = "loop"
    /\ call.ui > Len(call.usernames)
    /\ call' = [call EXCEPT !.pc = "done",
                            !.response = [matches |-> call.matches,
                                          count |-> Len(call.matches)]]

InitV3 == RegInit /\ ScanIdle /\ V3Init
NextV3 ==
    \/ V3Begin /\ UNCHANGED <<regVars, scanVars>>
    \/ V3Skip /\ UNCHANGED <<regVars, scanVars>>
    \/ V3Probe /\ UNCHANGED <<regVars, scanVars>>
    \/ V3Return /\ UNCHANGED <<regVars, scanVars>>
SpecV3 == InitV3 /\ [][NextV3]_vars

(***************************************************************************)
(* calculate_network_base of network_scanner.py and get_network_base of    *)
(* real_device_detector.py.  Addresses and masks are lists of octets, a    *)
(* base is the list of the octets before each "." of the returned prefix.  *)
(***************************************************************************)
IpOctets   == { 5, 10, 205, 255 }
MaskOctets == { 0, 128, 248, 255 }

\* an address or mask of four octets, or one with an octet missing
Addresses == [1 .. 4 -> IpOctets] \cup { << 10, 0, 0 >> }
Masks     == [1 .. 4 -> MaskOctets]

NoBase == << -1 >>                 \* `return None`

\* `a & b` on octets
RECURSIVE BitAnd_or(_, _)
BitAnd_or(a, b) ==
    IF a = 0 /\ b = 0 THEN 0
    ELSE (IF (a % 2) + (b % 2) > 0 THEN 1 ELSE 0) + 2 * BitAnd_or(a \div 2, b \div 2)
RECURSIVE BitAnd(_, _)
BitAnd(a, b) ==
    IF a = 0 \/ b = 0 THEN 0
    ELSE (a % 2) * (b % 2) + 2 * BitAnd(a \div 2, b \div 2)

calculate_network_base(ip_parts, mask_parts) ==
    IF Len(ip_parts) < 4 \/ Len(mask_parts) < 4 THEN NoBase
    ELSE LET network_parts == [i \in 1 .. 4 |-> BitAnd(ip_parts[i], mask_parts[i])]
         IN  IF mask_parts[3] = 255 THEN SubSeq(network_parts, 1, 3)
             ELSE IF mask_parts[2] = 255 THEN SubSeq(network_parts, 1, 2)
             ELSE SubSeq(network_parts, 1, 1)

get_network_base(ip_parts, mask_parts) ==
    IF Len(ip_parts) < 4 \/ Len(mask_parts) < 4 THEN NoBase
    ELSE LET network_parts == [i \in 1 .. 4 |-> BitAnd(ip_parts[i], mask_parts[i])]
         IN  IF mask_parts[3] = 255 THEN SubSeq(network_parts, 1, 3)
             ELSE IF mask_parts[2] = 255 THEN SubSeq(network_parts, 1, 2)
             ELSE SubSeq(network_parts, 1, 1)

BaseInit ==
    \E ip \in Addresses, mask \in Masks :
        call = [fn |-> "calculate_network_base", pc |-> "start",
                ip_address |-> ip, subnet_mask |-> mask,
                network_base |-> NoBase, detector_base |-> NoBase]

BaseStep ==
    /\ call.fn = "calculate_network_base" /\ call.pc = "start"
    /\ call' = [call EXCEPT
         !.network_base = calculate_network_base(call.ip_address, call.subnet_mask),
         !.detector_base = get_network_base(call.ip_address, call.subnet_mask),
         !.pc = "done"]

InitBase == RegInit /\ ScanIdle /\ BaseInit
NextBase ==
    \/ BaseStep /\ UNCHANGED <<regVars, scanVars>>
SpecBase == InitBase /\ [][NextBase]_vars

(***************************************************************************)
(* get_local_networks of network_scanner.py.  The output of `ipconfig` is  *)
(* a list of lines; of a line the parser only looks at whether it names an *)
(* adapter, whether it mentions the media state, and the address matched   *)
(* on an "IPv4 Address" or a "Subnet Mask" line.                           *)
(***************************************************************************)
MaxLines == 4

Line(adapter, media, ip, mask) ==
    [adapter |-> adapter, media |-> media, ip |-> ip, mask |-> mask]

\* the lines ipconfig prints: adapter headers, addresses, masks, anything else
ConfigLines ==
    { Line("Ethernet adapter Ethernet:", FALSE, Nothing, Nothing),
      Line("Wireless LAN adapter Media State:", TRUE, Nothing, Nothing),
      Line("", FALSE, Some(<<10, 205, 5, 7>>), Nothing),
      Line("", FALSE, Some(<<192, 168, 1, 4>>), Nothing),
      Line("", FALSE, Nothing, Some(<<255, 255, 255, 0>>)),
      Line("", FALSE, Nothing, Some(<<255, 255, 248, 0>>)),
      Line("", FALSE, Nothing, Some(<<255, 0, 0, 0>>)),
      Line("", TRUE, Nothing, Nothing) }

ConfigOutputs == UNION { [1 .. n -> ConfigLines] : n \in 0 .. MaxLines }

\* `fallback_networks`; the "x" of the ip field is written -1
fallback_networks ==
    << [base |-> <<192, 168, 1>>, adapter |-> "Fallback WiFi",
        ip |-> <<192, 168, 1, -1>>, mask |-> <<255, 255, 255, 0>>],
       [base |-> <<192, 168, 0>>, adapter |-> "Fallback Router",
        ip |-> <<192, 168, 0, -1>>, mask |-> <<255, 255, 255, 0>>],
       [base |-> <<10, 0, 0>>, adapter |-> "Fallback Corporate",
        ip |-> <<10, 0, 0, -1>>, mask |-> <<255, 255, 255, 0>>],
       [base |-> <<10, 205, 5>>, adapter |-> "Detected Ethernet",
        ip |-> <<10, 205, 5, -1>>, mask |-> <<255, 255, 248, 0>>] >>

\* `existing_bases = [net['base'] for net in networks]`
existing_bases(nets) == { nets[i].base : i \in 1 .. Len(nets) }

\* `for fallback in fallback_networks: if fallback['base'] not in existing_bases:
\*      networks.append(fallback)`
AddFallbacks_always(nets) == nets \o fallback_networks
AddFallbacks(nets) ==
    nets \o SelectSeq(fallback_networks, LAMBDA f : f.base \notin existing_bases(nets))

\* the parser's locals after one line of the loop body (lines 29-63)
ParseLine(c, line) ==
    LET adapter == IF line.adapter # "" THEN Some(line.adapter) ELSE c.current_adapter
        ip0     == IF line.adapter # "" THEN Nothing ELSE c.ip_address
        mask0   == IF line.adapter # "" THEN Nothing ELSE c.subnet_mask
        ip      == IF IsSome(line.ip) THEN line.ip ELSE ip0
        mask    == IF IsSome(line.mask) THEN line.mask ELSE mask0
        ready   == IsSome(ip) /\ IsSome(mask) /\ IsSome(adapter)
        media   == ready /\ (\E l \in ConfigLines : l.adapter = adapter[1] /\ l.media)
        base    == IF ready THEN calculate_network_base(ip[1], mask[1]) ELSE NoBase
    IN  [c EXCEPT
           !.current_adapter = adapter,
           !.ip_address  = IF ready THEN Nothing ELSE ip,
           !.subnet_mask = IF ready THEN Nothing ELSE mask,
           !.networks = IF ready /\ ~media /\ base # NoBase
                        THEN Append(@, [adapter |-> adapter[1], base |-> base,
                                        ip |-> ip[1], mask |-> mask[1]])
                        ELSE @,
           !.i = @ + 1]

NetsInit ==
    \E out \in ConfigOutputs :
        call = [fn |-> "get_local_networks", pc |-> "run", lines |-> out, i |-> 1,
                current_adapter |-> Nothing, ip_address |-> Nothing,
                subnet_mask |-> Nothing, networks |-> << >>, detected |-> << >>,
                threw |-> FALSE]

\* `subprocess.run(['ipconfig'], ...)` returns the output or raises; nothing
\* after it inside the try block can raise (calculate_network_base catches
\* its own exceptions), so `except Exception` is entered from here only
NetsRun ==
    /\ call.fn = "get_local_networks" /\ call.pc = "run"
    /\ \E raises \in BOOLEAN :
         call' = [call EXCEPT !.threw = raises,
                              !.pc = IF raises THEN "fallback" ELSE "lines"]

\* one iteration of `for line in lines`
NetsLine ==
    /\ call.fn = "get_local_networks" /\ call.pc = "lines"
    /\ call.i <= Len(call.lines)
    /\ call' = ParseLine(call, call.lines[call.i])

\* lines 68-82: the fallback ranges and `return networks`
NetsFallback ==
    /\ call.fn = "get_local_networks"
    /\ \/ call.pc = "fallback"
       \/ call.pc = "lines" /\ call.i > Len(call.lines)
    /\ call' = [call EXCEPT !.detected = call.networks,
                            !.networks = AddFallbacks(call.networks),
                            !.pc = "done"]

InitNets == RegInit /\ ScanIdle /\ NetsInit
NextNets ==
    \/ NetsRun /\ UNCHANGED <<regVars, scanVars>>
    \/ NetsLine /\ UNCHANGED <<regVars, scanVars>>
    \/ NetsFallback /\ UNCHANGED <<regVars, scanVars>>
SpecNets == InitNets /\ [][NextNets]_vars

(***************************************************************************)
(* The BER helpers of the raw-UDP build of snmp_client.py.  Byte strings   *)
(* are lists of integers 0..255, text is the list of its character codes,  *)
(* an OID argument is the list of the integers of its dotted text.         *)
(***************************************************************************)
LongLen == 130                  \* a value long enough for a long-form length

NoText == << -1 >>              \* `return None`
Raised == << -2 >>              \* bytes(...) raises ValueError

\* str(n) and '.'.join(...)
RECURSIVE Str(_)
Str(n) == IF n < 10 THEN << 48 + n >> ELSE Str(n \div 10) \o << 48 + (n % 10) >>
RECURSIVE DotJoin(_)
DotJoin(parts) ==
    IF parts = << >> THEN << >>
    ELSE IF Len(parts) = 1 THEN Str(parts[1])
    ELSE Str(parts[1]) \o << 46 >> \o DotJoin(Tail(parts))

\* the bytes of n, most significant first (empty for 0)
RECURSIVE BigEndian(_)
BigEndian(n) == IF n = 0 THEN << >> ELSE BigEndian(n \div 256) \o << n % 256 >>

_encode_length(length) ==
    IF length < 128 THEN << length >>
    ELSE LET out_bytes == BigEndian(length)
         IN  << 128 + Len(out_bytes) >> \o out_bytes

_encode_octet_string(data) == << 4 >> \o _encode_length(Len(data)) \o data

\* one arc of parts[2:]: a single byte below 128, else 7-bit groups with the
\* top bit set on all but the last
RECURSIVE Groups(_)
Groups(p) == IF p = 0 THEN << >> ELSE Groups(p \div 128) \o << 128 + (p % 128) >>
EncodeArc(p) ==
    IF p < 128 THEN << p >>
    ELSE LET g == Groups(p)
         IN  [g EXCEPT ![Len(g)] = @ - 128]

RECURSIVE EncodeArcs(_)
EncodeArcs(ps) == IF ps = << >> THEN << >> ELSE EncodeArc(Head(ps)) \o EncodeArcs(Tail(ps))

_encode_oid(parts) ==
    IF Len(parts) < 2 THEN << 6, 1, 0 >>
    ELSE LET first_byte == 40 * parts[1] + parts[2]
             content    == << first_byte >> \o EncodeArcs(SubSeq(parts, 3, Len(parts)))
         IN  IF first_byte > 255 THEN Raised
             ELSE << 6 >> \o _encode_length(Len(content)) \o content

\* data.find(pat): the first position (from 0) where pat occurs, -1 if none
Find(data, pat) ==
    LET hits == { q \in 0 .. (Len(data) - Len(pat)) :
                    SubSeq(data, q + 1, q + Len(pat)) = pat }
    IN  IF hits = {} THEN -1 ELSE CHOOSE q \in hits : \A r \in hits : q <= r

\* data[a:b]
Slice(data, a, b) == SubSeq(data, a + 1, Min(b, Len(data)))

\* `length = (length << 8) | b` over the bytes
RECURSIVE FromBytes(_, _)
FromBytes(bs, acc) ==
    IF bs = << >> THEN acc ELSE FromBytes(Tail(bs), acc * 256 + Head(bs))

\* bytes.decode(errors='ignore') on single-byte characters: a byte above 127
\* that starts no valid sequence is dropped
Decode(bs) == SelectSeq(bs, LAMBDA b : b < 128)

\* str.strip('\x00')
RECURSIVE StripNul(_)
StripNul(t) ==
    IF t = << >> THEN t
    ELSE IF Head(t) = 0 THEN StripNul(Tail(t))
    ELSE IF t[Len(t)] = 0 THEN StripNul(SubSeq(t, 1, Len(t) - 1))
    ELSE t

\* the sub-identifiers after the first byte of an OID value
RECURSIVE DecodeSubs(_, _)
DecodeSubs(bs, sub) ==
    IF bs = << >> THEN << >>
    ELSE LET s2 == sub * 128 + (Head(bs) % 128)
         IN  IF Head(bs) >= 128 THEN DecodeSubs(Tail(bs), s2)
             ELSE << s2 >> \o DecodeSubs(Tail(bs), 0)

DecodeOidValue(value_bytes) ==
    IF value_bytes = << >> THEN NoText
    ELSE LET first == value_bytes[1]
         IN  DotJoin(<< first \div 40, first % 40 >> \o DecodeSubs(Tail(value_bytes), 0))

_parse_response(data, encoded_oid) ==
    LET pos       == Find(data, encoded_oid)
        value_pos == pos + Len(encoded_oid)
    IN  IF pos = -1 THEN NoText
        ELSE IF value_pos + 2 > Len(data) THEN NoText
        ELSE LET tag         == data[value_pos + 1]
                 length_byte == data[value_pos + 2]
                 long        == length_byte >= 128
                 ln_len      == length_byte % 128
             IN  IF long /\ value_pos + 2 + ln_len > Len(data) THEN NoText
                 ELSE LET length == IF long
                                    THEN FromBytes(Slice(data, value_pos + 2,
                                                         value_pos + 2 + ln_len), 0)
                                    ELSE length_byte
                          idx    == IF long THEN value_pos + 2 + ln_len ELSE value_pos + 2
                          value_bytes == Slice(data, idx, idx + length)
                      IN  IF tag = 4
                          THEN LET text == StripNul(Decode(value_bytes))
                               IN  IF text = << >> THEN NoText ELSE text
                          ELSE IF tag = 2 /\ length <= 4 THEN Str(FromBytes(value_bytes, 0))
                          ELSE IF tag = 67 THEN Str(FromBytes(value_bytes, 0))
                          ELSE IF tag = 6 THEN DecodeOidValue(value_bytes)
                          ELSE NoText

\* requested OIDs and OID values: system and enterprise OIDs, an arc above
\* 16383, and OIDs under the joint arc 2
BerOids ==
    { << 1, 3 >>, << 0, 0 >>,
      << 1, 3, 6, 1, 2, 1, 1, 1, 0 >>,
      << 1, 3, 6, 1, 4, 1, 841 >>,
      << 1, 3, 6, 1, 4, 1, 16384, 1 >>,
      << 2, 5, 4, 3 >>,
      << 2, 100, 3 >>,
      << 2, 999, 1 >> }

\* printable values: "Test Device", "A", " ", and LongLen times "x"
BerTexts ==
    { << 84, 101, 115, 116, 32, 68, 101, 118, 105, 99, 101 >>,
      << 65 >>, << 32 >>,
      [i \in 1 .. LongLen |-> 120] }

\* what precedes the variable binding in a response (the message header with
\* community "public" and a GetResponse PDU head), and what follows it
BerPrefixes ==
    { << >>,
      << 48, 40, 2, 1, 1, 4, 6, 112, 117, 98, 108, 105, 99, 162, 27,
         2, 4, 18, 52, 86, 120, 2, 1, 0, 2, 1, 0, 48, 13, 48, 11 >> }
BerSuffixes == { << >>, << 5, 0 >> }

BerInit ==
    \E oid \in BerOids, kind \in {"text", "oid"}, pre \in BerPrefixes, suf \in BerSuffixes :
      \E value \in (IF kind = "text" THEN BerTexts ELSE BerOids) :
        call = [fn |-> "_parse_response", pc |-> "encode", oid |-> oid, kind |-> kind,
                value |-> value, prefix |-> pre, suffix |-> suf,
                encoded_oid |-> << >>, data |-> << >>, val |-> NoText]

\* `encoded_oid = _encode_oid(oid)` and the synthetic response around it
BerEncode ==
    /\ call.fn = "_parse_response" /\ call.pc = "encode"
    /\ LET enc == _encode_oid(call.oid)
           tlv == IF call.kind = "text" THEN _encode_octet_string(call.value)
                  ELSE _encode_oid(call.value)
       IN  IF enc = Raised \/ tlv = Raised
           THEN call' = [call EXCEPT !.pc = "raised"]
           ELSE call' = [call EXCEPT !.encoded_oid = enc,
                                     !.data = call.prefix \o enc \o tlv \o call.suffix,
                                     !.pc = "parse"]

\* `val = _parse_response(data, encoded_oid)`
BerParse ==
    /\ call.fn = "_parse_response" /\ call.pc = "parse"
    /\ call' = [call EXCEPT !.val = _parse_response(call.data, call.encoded_oid),
                            !.pc = "done"]

InitBer == RegInit /\ ScanIdle /\ BerInit
NextBer ==
    \/ BerEncode /\ UNCHANGED <<regVars, scanVars>>
    \/ BerParse /\ UNCHANGED <<regVars, scanVars>>
SpecBer == InitBer /\ [][NextBer]_vars

(***************************************************************************)
(* The ARP/ping discovery endpoints: discover_devices of app.py and        *)
(* fixed_app.py, and test_discover_devices of fixed_app.py.                *)
(***************************************************************************)
MaxArp == 3                 \* devices the ARP sweep can list

ArpIps == { <<10, 205, 5, 20>>, <<10, 205, 5, 21>>, <<192, 168, 1, 7>>, <<192, 168, 1, 8>> }

\* an entry of detect_real_station_radios, and the entry the endpoint builds
ArpDevice(ip) == [ip |-> ip, discovery_method |-> "arp_ping_detection"]
YourStationRadio(ip) ==
    [ip |-> ip, hint |-> "station_radio", device_type |-> "Station Radio",
     is_real_station_radio |-> TRUE, status |-> "online",
     discovery_method |-> "specific_mac_detection"]

\* the results of detect_real_station_radios: one entry per key of the ARP table
ArpSweeps ==
    { sw \in UNION { [1 .. n -> ArpIps] : n \in 0 .. MaxArp } : Distinct(sw) }

\* `any(d['ip'] == your_station_radio_ip for d in real_devices)`
found_in_list(real_devices, ip) == \E i \in 1 .. Len(real_devices) : real_devices[i].ip = ip

\* `for device in real_devices: if device['ip'] != your_station_radio_ip: candidates.append(device)`
OtherDevices(real_devices, your) ==
    SelectSeq(real_devices, LAMBDA d : your = Nothing \/ d.ip # your[1])

\* discover_devices: the specific entry is added when the sweep does not list it
discover_candidates(your, real_devices) ==
    (IF IsSome(your) /\ ~found_in_list(real_devices, your[1])
     THEN << YourStationRadio(your[1]) >> ELSE << >>)
    \o OtherDevices(real_devices, your)

\* test_discover_devices: the specific entry is added whenever the radio was found
test_discover_candidates(your, real_devices) ==
    (IF IsSome(your) THEN << YourStationRadio(your[1]) >> ELSE << >>)
    \o OtherDevices(real_devices, your)

ArpInit ==
    \E endpoint \in {"discover_devices", "test_discover_devices"} :
        call = [fn |-> endpoint, pc |-> "find", your_station_radio_ip |-> Nothing,
                real_devices |-> << >>, candidates |-> << >>]

\* `your_station_radio_ip = get_your_station_radio_ip()`: an address or None
ArpFindYours ==
    /\ call.fn \in {"discover_devices", "test_discover_devices"} /\ call.pc = "find"
    /\ \E your \in {Nothing} \cup { Some(ip) : ip \in ArpIps } :
         call' = [call EXCEPT !.your_station_radio_ip = your, !.pc = "sweep"]

\* `real_devices = detect_real_station_radios()`
ArpSweep ==
    /\ call.fn \in {"discover_devices", "test_discover_devices"} /\ call.pc = "sweep"
    /\ \E sw \in ArpSweeps :
         call' = [call EXCEPT !.real_devices = [i \in 1 .. Len(sw) |-> ArpDevice(sw[i])],
                              !.pc = "candidates"]

\* the candidate list and the return
ArpReturn ==
    /\ call.fn \in {"discover_devices", "test_discover_devices"} /\ call.pc = "candidates"
    /\ call' = [call EXCEPT
         !.candidates = IF call.fn = "discover_devices"
                        THEN discover_candidates(call.your_station_radio_ip, call.real_devices)
                        ELSE test_discover_candidates(call.your_station_radio_ip,
                                                      call.real_devices),
         !.pc = "done"]

InitArp == RegInit /\ ScanIdle /\ ArpInit
NextArp ==
    \/ ArpFindYours /\ UNCHANGED <<regVars, scanVars>>
    \/ ArpSweep /\ UNCHANGED <<regVars, scanVars>>
    \/ ArpReturn /\ UNCHANGED <<regVars, scanVars>>
SpecArp == InitArp /\ [][NextArp]_vars

(***************************************************************************)
(* The temporary SNMP overrides of discover_devices of real_backend.py.    *)
(* os.environ is shared by the worker threads; a request reads and writes  *)
(* it one key at a time.                                                   *)
(***************************************************************************)
MaxDiscovers == 2           \* discover requests served in one run

EnvKeys == << "METRO_SNMP_COMMUNITY", "METRO_SNMP_VERSION", "METRO_SNMP_PORT" >>

\* DeviceDiscoveryRequest bodies: no override, community and port, version
DiscoverRequests ==
    { [community |-> None, version |-> None, port |-> 0],
      [community |-> "private", version |-> None, port |-> 1161],
      [community |-> None, version |-> "1", port |-> 0] }

\* the environment the process was started with (None: the key is unset)
StartEnvs ==
    { << c, None, pt >> : c \in {None, "public"}, pt \in {None, "161"} }

\* str(request.port)
PortText(port) == IF port = 1161 THEN "1161" ELSE "0"

\* the value a request writes for key k, None when it has no override for it
Override(req, k) ==
    IF k = 1 THEN (IF Truthy(req.community) THEN req.community ELSE None)
    ELSE IF k = 2 THEN (IF Truthy(req.version) THEN req.version ELSE None)
    ELSE (IF req.port # 0 THEN PortText(req.port) ELSE None)

\* `finally`: the previous value is put back (a key that was unset is removed)
Restored(env, prev, k) == [env EXCEPT ![k] = prev[k]]

IdleD == [pc |-> "idle", k |-> 1, req |-> CHOOSE r \in DiscoverRequests : r.port = 1161,
          prev_env |-> << None, None, None >>]

EnvInit ==
    \E e \in StartEnvs :
        call = [fn |-> "discover_devices_env", environ |-> e, original |-> e,
                d |-> [t \in Handlers |-> IdleD], begun |-> 0, overlapped |-> FALSE]

\* POST /wizard/discover arrives at worker t
EnvBegin(t) ==
    /\ call.fn = "discover_devices_env" /\ call.d[t].pc = "idle"
    /\ call.begun < MaxDiscovers
    /\ \E req \in DiscoverRequests :
         call' = [call EXCEPT !.d[t] = [IdleD EXCEPT !.pc = "save", !.req = req],
                              !.begun = @ + 1,
                              !.overlapped = @ \/ \E u \in Handlers : call.d[u].pc # "idle"]

\* `prev_env = {...}`: one os.environ.get
EnvSave(t) ==
    /\ call.fn = "discover_devices_env" /\ call.d[t].pc = "save"
    /\ LET k == call.d[t].k
       IN  call' = [call EXCEPT !.d[t].prev_env[k] = call.environ[k],
                                !.d[t].k = IF k = 3 THEN 1 ELSE k + 1,
                                !.d[t].pc = IF k = 3 THEN "apply" ELSE "save"]

\* `if request.community: os.environ[...] = request.community`, and so on
EnvApply(t) ==
    /\ call.fn = "discover_devices_env" /\ call.d[t].pc = "apply"
    /\ LET k == call.d[t].k
           v == Override(call.d[t].req, k)
       IN  call' = [call EXCEPT !.environ[k] = IF v # None THEN v ELSE @,
                                !.d[t].k = IF k = 3 THEN 1 ELSE k + 1,
                                !.d[t].pc = IF k = 3 THEN "probe" ELSE "apply"]

\* the targeted probes or the broad scan: they end normally or by exception,
\* and `finally` runs in both cases
EnvProbe(t) ==
    /\ call.fn = "discover_devices_env" /\ call.d[t].pc = "probe"
    /\ call' = [call EXCEPT !.d[t].pc = "restore"]

\* `for k, v in prev_env.items(): ...` and the return
EnvRestore(t) ==
    /\ call.fn = "discover_devices_env" /\ call.d[t].pc = "restore"
    /\ LET k == call.d[t].k
       IN  call' = [call EXCEPT !.environ = Restored(@, call.d[t].prev_env, k),
                                !.d[t] = IF k = 3 THEN IdleD ELSE [@ EXCEPT !.k = k + 1]]

InitEnv == RegInit /\ ScanIdle /\ EnvInit
NextEnv ==
    \/ \E t \in Handlers : EnvBegin(t) /\ UNCHANGED <<regVars, scanVars>>
    \/ \E t \in Handlers : EnvSave(t) /\ UNCHANGED <<regVars, scanVars>>
    \/ \E t \in Handlers : EnvApply(t) /\ UNCHANGED <<regVars, scanVars>>
    \/ \E t \in Handlers : EnvProbe(t) /\ UNCHANGED <<regVars, scanVars>>
    \/ \E t \in Handlers : EnvRestore(t) /\ UNCHANGED <<regVars, scanVars>>
SpecEnv == InitEnv /\ [][NextEnv]_vars

(***************************************************************************)
(* Specifications of the session registry                                  *)
(***************************************************************************)
\* Requests served concurrently by the worker threads.  The probes answer
\* RaceValues and the start requests are RaceRequests.
Init == RegInit /\ ScanIdle /\ call = NoCall
Next ==
    \/ \E t \in Handlers : StartBegin(t, RaceRequests) /\ UNCHANGED <<scanVars, call>>
    \/ \E t \in Handlers : StartLiveness(t, RaceValues) /\ UNCHANGED <<scanVars, call>>
    \/ \E t \in Handlers : StartReadId(t) /\ UNCHANGED <<scanVars, call>>
    \/ \E t \in Handlers : StartLoadCounter(t) /\ UNCHANGED <<scanVars, call>>
    \/ \E t \in Handlers : StartStoreCounter(t) /\ UNCHANGED <<scanVars, call>>
    \/ \E t \in Handlers : StartSysName(t, RaceValues) /\ UNCHANGED <<scanVars, call>>
    \/ \E t \in Handlers : StartInsert(t) /\ UNCHANGED <<scanVars, call>>
    \/ \E t \in Handlers : GetSessionSummary(t) /\ UNCHANGED <<scanVars, call>>
    \/ \E t \in Handlers : GetDeviceSession(t) /\ UNCHANGED <<scanVars, call>>
    \/ \E t \in Handlers : RefreshBegin(t) /\ UNCHANGED <<scanVars, call>>
    \/ \E t \in Handlers : RefreshDescr(t, RaceValues) /\ UNCHANGED <<scanVars, call>>
    \/ \E t \in Handlers : RefreshWriteDescr(t) /\ UNCHANGED <<scanVars, call>>
    \/ \E t \in Handlers : RefreshName(t, RaceValues) /\ UNCHANGED <<scanVars, call>>
    \/ \E t \in Handlers : RefreshWriteName(t) /\ UNCHANGED <<scanVars, call>>
    \/ \E t \in Handlers : RefreshReturn(t) /\ UNCHANGED <<scanVars, call>>
    \/ \E t \in Handlers : UpdateDeviceConfiguration(t) /\ UNCHANGED <<scanVars, call>>
Spec == Init /\ [][Next]_vars

\* Requests served one at a time (by worker 1).  The probes answer ProbeValues
\* and the start requests are Requests.
NextSeq ==
    \/ \E t \in {1} : StartBegin(t, Requests) /\ UNCHANGED <<scanVars, call>>
    \/ \E t \in {1} : StartLiveness(t, ProbeValues) /\ UNCHANGED <<scanVars, call>>
    \/ \E t \in {1} : StartReadId(t) /\ UNCHANGED <<scanVars, call>>
    \/ \E t \in {1} : StartLoadCounter(t) /\ UNCHANGED <<scanVars, call>>
    \/ \E t \in {1} : StartStoreCounter(t) /\ UNCHANGED <<scanVars, call>>
    \/ \E t \in {1} : StartSysName(t, ProbeValues) /\ UNCHANGED <<scanVars, call>>
    \/ \E t \in {1} : StartInsert(t) /\ UNCHANGED <<scanVars, call>>
    \/ \E t \in {1} : GetSessionSummary(t) /\ UNCHANGED <<scanVars, call>>
    \/ \E t \in {1} : GetDeviceSession(t) /\ UNCHANGED <<scanVars, call>>
    \/ \E t \in {1} : RefreshBegin(t) /\ UNCHANGED <<scanVars, call>>
    \/ \E t \in {1} : RefreshDescr(t, ProbeValues) /\ UNCHANGED <<scanVars, call>>
    \/ \E t \in {1} : RefreshWriteDescr(t) /\ UNCHANGED <<scanVars, call>>
    \/ \E t \in {1} : RefreshName(t, ProbeValues) /\ UNCHANGED <<scanVars, call>>
    \/ \E t \in {1} : RefreshWriteName(t) /\ UNCHANGED <<scanVars, call>>
    \/ \E t \in {1} : RefreshReturn(t) /\ UNCHANGED <<scanVars, call>>
    \/ \E t \in {1} : UpdateDeviceConfiguration(t) /\ UNCHANGED <<scanVars, call>>
SpecSeq == Init /\ [][NextSeq]_vars

(***************************************************************************)
(* Properties of the session registry                                      *)
(***************************************************************************)
Objects == 1 .. Len(heap)

\* C1: no session id is returned by two successful start_session calls
\* (handlers running concurrently).
C1_UniqueSessionIds ==
    \A i, j \in 1 .. Len(issued_ids) : i # j => issued_ids[i] # issued_ids[j]

\* the read-modify-write sections: between the read of NEXT_SESSION_ID and the
\* store of its increment, and between the read of a cached field and its
\* write-back
InRegistrySection(t) == h[t].pc \in {"load", "store", "write_descr", "write_name"}

\* C9: at no time are two handlers inside a registry read-modify-write section.
C9_RegistryMutualExclusion ==
    Cardinality({t \in Handlers : InRegistrySection(t)}) <= 1

\* C4: a cached last_sysDescr / system_name changes only in the write-back of a
\* refresh whose probe returned a non-empty value, and then to that value; a
\* refresh whose probe returned nothing returns the value it found cached.
C4_LastKnownGood ==
    [][ /\ \A o \in Objects :
             /\ heap'[o].last_sysDescr # heap[o].last_sysDescr
                  => \E t \in Handlers : /\ h[t].pc = "write_descr" /\ h[t].sess = o
                                         /\ Truthy(h[t].dval)
                                         /\ heap'[o].last_sysDescr = h[t].dval
             /\ heap'[o].system_name # heap[o].system_name
                  => \E t \in Handlers : /\ h[t].pc = "write_name" /\ h[t].sess = o
                                         /\ Truthy(h[t].nval)
                                         /\ heap'[o].system_name = h[t].nval
        /\ \A t \in Handlers :
             (h[t].pc = "uptime" /\ h'[t].pc = "idle")
               => /\ resp'.sysDescr = heap[h[t].sess].last_sysDescr
                  /\ ~Truthy(h[t].dval) => resp'.sysDescr = h[t].descr
                  /\ resp'.system_name = heap[h[t].sess].system_name
                  /\ ~Truthy(h[t].nval) => resp'.system_name = h[t].name
      ]_vars

\* a refresh whose sysDescr probe returned nothing has passed its write-back
\* and the cached value is still there
C4_Witness ==
    \E t \in Handlers : /\ h[t].op = "refresh" /\ h[t].pc = "name"
                         /\ ~Truthy(h[t].dval)
                         /\ Truthy(heap[h[t].sess].last_sysDescr)

\* C5: start_session leaves the liveness loop for the id allocation only with
\* a non-empty, non-placeholder value; otherwise, after the four probes, it
\* answers 400, and no step of the liveness phase touches the session map,
\* the session objects or the id counter.
C5_FailedStartStoresNothing ==
    [][ \A t \in Handlers :
          (h[t].op = "start" /\ h[t].pc = "liveness")
            => /\ h'[t].pc = "read_id" => LivenessOk(h'[t].ok_value)
               /\ h'[t].pc = "idle"
                    => /\ resp'.kind = "start" /\ resp'.status = 400
                       /\ Len(resp'.probes) = 4
               /\ UNCHANGED <<SESSIONS, NEXT_SESSION_ID, heap, issued_ids>>
      ]_vars

\* a start has failed after an earlier one stored a session
C5_Witness ==
    /\ resp.kind = "start" /\ resp.status = 400
    /\ DOMAIN SESSIONS = {1} /\ NEXT_SESSION_ID = 2

\* C6: served one at a time, the n-th successful start_session returns id n.
C6_SequentialIds ==
    /\ \A n \in 1 .. Len(issued_ids) : issued_ids[n] = n
    /\ (\A t \in Handlers : h[t].pc = "idle")
          => /\ NEXT_SESSION_ID = Len(issued_ids) + 1
             /\ DOMAIN SESSIONS = 1 .. Len(issued_ids)

\* the second successful start has returned id 2
C6_Witness ==
    /\ Len(issued_ids) = 2
    /\ resp.kind = "start" /\ resp.status = 200 /\ resp.session_id = 2

\* the liveness order of start_session, written out
LivenessOrder(req) ==
    << IF Truthy(req.oid) THEN req.oid ELSE SYS_DESCR,
       SYS_UPTIME, PROXIM_PRODUCT_DESCR, PROXIM_SYSTEM_NAME >>

\* C7: the liveness probes follow LivenessOrder; the loop stops at the first
\* answer, which is reported as verified_oid; the id is taken only after it.
C7_LivenessOrder ==
    [][ \A t \in Handlers :
          h[t].op = "start" =>
            /\ h[t].pc = "liveness"
                 => /\ Len(h[t].probes) = h[t].i - 1
                    /\ h[t].session_id = 0
                    /\ LET log == IF h'[t].pc = "idle" THEN resp'.probes
                                                         ELSE h'[t].probes
                       IN  /\ Len(log) = h[t].i
                           /\ log[h[t].i].oid = LivenessOrder(h[t].req)[h[t].i]
                    /\ h'[t].pc = "liveness" => h'[t].i = h[t].i + 1
                    /\ h'[t].pc = "read_id"
                         => /\ h'[t].ok_oid = LivenessOrder(h[t].req)[h[t].i]
                            /\ h'[t].i = h[t].i
                    /\ NEXT_SESSION_ID' = NEXT_SESSION_ID
            /\ h[t].pc \in {"read_id", "load", "store", "sysname", "insert"}
                 => /\ h[t].ok_oid = LivenessOrder(h[t].req)[h[t].i]
                    /\ \A j \in 1 .. h[t].i :
                          h[t].probes[j].oid = LivenessOrder(h[t].req)[j]
                    /\ h'[t].pc # "idle" => h'[t].i = h[t].i /\ h'[t].ok_oid = h[t].ok_oid
            /\ h[t].pc = "insert"
                 => /\ resp'.verified_oid = h[t].ok_oid
                    /\ resp'.session_id = h[t].session_id
      ]_vars

\* a start has succeeded on the third liveness OID
C7_Witness ==
    /\ resp.kind = "start" /\ resp.status = 200
    /\ resp.verified_oid = PROXIM_PRODUCT_DESCR
    /\ resp.probes[1].oid = SYS_DESCR /\ resp.probes[2].oid = SYS_UPTIME

\* C8: a get or refresh of an id that is not in the registry answers 404,
\* issues no probe and changes neither the session map nor the counter.
C8_NotFound ==
    [][ /\ (resp' # resp /\ resp'.kind \in {"summary", "device", "refresh"}
              /\ resp'.sid \notin DOMAIN SESSIONS)
             => /\ resp'.status = 404
                /\ resp'.probes = << >>
                /\ UNCHANGED <<SESSIONS, NEXT_SESSION_ID, heap, issued_ids>>
        /\ \A t \in Handlers :
             (h[t].pc = "idle" /\ h'[t].op = "refresh" /\ h'[t].pc # "idle")
               => h'[t].sid \in DOMAIN SESSIONS
        /\ (resp' # resp /\ resp'.status = 404) => resp'.sid \notin DOMAIN SESSIONS
      ]_vars

\* a refresh of an unknown id was answered 404 while a session exists
C8_Witness ==
    /\ resp.kind = "refresh" /\ resp.status = 404
    /\ SESSIONS # << >> /\ resp.sid \notin DOMAIN SESSIONS

(***************************************************************************)
(* Properties of the scanner                                               *)
(***************************************************************************)
\* probe threads started and not yet finished
Running == Cardinality({k \in 1 .. Len(threads) : ~threads[k].done})

C3_AtMostLimitHosts ==
    limit_hosts # NoLimit => Len(started) <= limit_hosts

\* C10: once the attempted-host counter has reached a limit_hosts >= 1, no
\* further probe thread is started (until the scan returns, threads are only
\* joined).
C10_NoStartAfterLimit ==
    [][ (limit_hosts # NoLimit /\ limit_hosts >= 1
           /\ sc.attempted_hosts >= limit_hosts)
          => started' = started ]_vars

\* The rest of C10: the scan returns only when every started thread has
\* finished, and what the threads found is what is returned.
ScanJoinsAll ==
    sc.returned => /\ Running = 0
                   /\ \A k \in 1 .. Len(threads) : threads[k].done

\* the hosts of one range: the sweep of a /24 or /8 base, the grid of a /16 base
HostsOf(base) ==
    IF Len(base) = 2
    THEN { base \o << SUBNETS[i], HOSTS16[j] >> : i \in 1 .. GridSubnets, j \in 1 .. GridHosts }
    ELSE { Append(base, x) : x \in 1 .. LastHost(base) }

Ips(seq) == { seq[i] : i \in 1 .. Len(seq) }

\* C11: the end of a probe thread, whether it answered, timed out or raised,
\* changes nothing of the coordinator (position, stop flag, started hosts) and
\* nothing of the other threads; it appends its own host when it answered and
\* leaves `devices` alone otherwise; `devices` never loses an entry.  So a scan
\* without a limit returns having probed every host of every range, and a scan
\* in which no probed host runs an agent returns the empty list.
C11_FailureDoesNotAbort ==
    [][ /\ \A k \in 1 .. Len(threads) :
             (~threads[k].done /\ k <= Len(threads') /\ threads'[k].done)
               => /\ sc' = sc /\ started' = started
                  /\ Len(threads') = Len(threads)
                  /\ \A j \in 1 .. Len(threads) : j # k => threads'[j] = threads[j]
                  /\ threads'[k].outcome \in {"answer", "timeout", "exception"}
                  /\ threads'[k].outcome = "answer"
                       => /\ Len(devices') = Len(devices) + 1
                          /\ devices'[Len(devices')].ip = threads[k].ip
                  /\ threads'[k].outcome # "answer" => devices' = devices
        /\ Len(devices') >= Len(devices)
        /\ SubSeq(devices', 1, Len(devices)) = devices
        /\ sc'.returned
             => /\ limit_hosts = NoLimit
                     => \A n \in 1 .. Len(networks) :
                           HostsOf(networks[n].base) \subseteq Ips(started')
                /\ Ips(started') \cap LiveHosts = {} => devices' = << >>
      ]_vars

\* a scan has returned a responder although a probe thread of its last batch
\* raised and another timed out
C11_Witness ==
    /\ sc.returned /\ devices # << >>
    /\ \E k \in 1 .. Len(threads) : threads[k].outcome = "exception"
    /\ \E k \in 1 .. Len(threads) : threads[k].outcome = "timeout"

(***************************************************************************)
(* Properties of the classification in scan_ip                             *)
(***************************************************************************)
\* C12: a responder whose sysObjectID starts with 1.3.6.1.4.1.841 is returned
\* with is_station_radio true, device_type "Station Radio" and hint
\* "station_radio", whatever its sysDescr says.
C12_EnterpriseWins ==
    (call.fn = "scan_ip" /\ call.done /\ Responsive(call.agent)
       /\ StartsWith(call.agent.objectid, PROXIM_ENTERPRISE_OID))
      => /\ Len(call.devices) = 1
         /\ call.devices[1].is_station_radio = TRUE
         /\ call.devices[1].device_type = "Station Radio"
         /\ call.devices[1].hint = "station_radio"
         /\ call.devices[1].enterprise = call.agent.objectid

\* a responder of the vendor's subtree that describes itself as a switch has
\* been classified as a station radio
C12_Witness ==
    /\ call.fn = "scan_ip" /\ call.done /\ Len(call.devices) = 1
    /\ call.agent.objectid = OID_Proxim
    /\ Contains(Lower(call.agent.descr), Lower(S_Switch))
    /\ call.devices[1].is_station_radio

\* the keyword set of the classifier, as the claim lists it
Keywords == { S_radio, Lower(S_Proxim), Lower(S_Tsunami), Lower(S_Wireless), Lower(S_Bridge) }

\* C13: for a responder that answered sysDescr and whose sysObjectID does not
\* start with the vendor prefix, is_station_radio is true exactly when the
\* lower-cased sysDescr contains one of radio, proxim, tsunami, wireless,
\* bridge.
C13_KeywordFlag ==
    (call.fn = "scan_ip" /\ call.done /\ TruthyS(call.agent.descr)
       /\ ~StartsWith(OrS(call.agent.objectid, << >>), PROXIM_ENTERPRISE_OID))
      => /\ Len(call.devices) = 1
         /\ call.devices[1].is_station_radio
              = (\E kw \in Keywords : Contains(Lower(call.agent.descr), kw))

\* what scan_ip does instead: only the keyword radio counts
ScanIpRadioOnly ==
    (call.fn = "scan_ip" /\ call.done /\ Responsive(call.agent)
       /\ ~StartsWith(OrS(call.agent.objectid, << >>), PROXIM_ENTERPRISE_OID))
      => /\ Len(call.devices) = 1
         /\ call.devices[1].is_station_radio
              = Contains(Lower(LivenessValue(call.agent)), S_radio)
         /\ call.devices[1].device_type = "Unknown"

\* C14: the scan of "10.0.0." with limit_hosts = 10, in which only 10.0.0.5
\* answers (sysDescr only, a description containing "Proxim Tsunami"), returns
\* exactly one candidate: ip 10.0.0.5, is_station_radio true, device_type
\* "Station Radio".
C14_EndToEnd ==
    sc.returned
      => /\ Len(devices) = 1
         /\ devices[1].ip = << 10, 0, 0, 5 >>
         /\ devices[1].is_station_radio = TRUE
         /\ devices[1].device_type = "Station Radio"

\* what that scan returns: the one candidate, after ten started probes, with
\* device_type "Unknown" and flagged only if its description says radio
E2EReturnsOneUnknown ==
    sc.returned
      => /\ Len(started) = 10
         /\ Len(devices) = 1
         /\ devices[1].ip = << 10, 0, 0, 5 >>
         /\ devices[1].device_type = "Unknown"
         /\ devices[1].is_station_radio = Contains(Lower(devices[1].description), S_radio)

(***************************************************************************)
(* Properties of snmp_get                                                  *)
(***************************************************************************)
\* the version a call forces, by argument or by METRO_SNMP_VERSION: "2c", "1",
\* or None when none is named
Forced ==
    LET f == Strip(IF Truthy(call.version) THEN call.version ELSE call.METRO_SNMP_VERSION)
    IN  IF f \in {"2c", "2", "v2c"} THEN "2c"
        ELSE IF f \in {"1", "v1"} THEN "1" ELSE None

\* the versions a call has sent requests in, in order (repeats of one version
\* by the retry loop count once)
RECURSIVE Collapse(_)
Collapse(vs) ==
    IF Len(vs) <= 1 THEN vs
    ELSE IF vs[1] = vs[2] THEN Collapse(Tail(vs))
    ELSE << vs[1] >> \o Collapse(Tail(vs))
AttemptedVersions == Collapse([k \in 1 .. Len(call.attempts) |-> call.attempts[k].ver])

VersionFallback ==
    LET log == call.attempts
        vs  == AttemptedVersions
    IN  /\ Forced = None
             => /\ vs \in { << >>, << "2c" >>, << "2c", "1" >> }
                /\ \A k \in 1 .. Len(log) :
                      (log[k].ver = "1")
                        => /\ k > 1 /\ log[k - 1].ver = "2c"
                           /\ log[k - 1].outcome \in {"errorIndication", "errorStatus"}
                /\ call.pc = "done"
                     => \A k \in 1 .. Len(log) :
                           (log[k].ver = "2c"
                              /\ log[k].outcome \in {"errorIndication", "errorStatus"})
                             => Len(log) > k /\ log[k + 1].ver = "1"
        /\ Forced # None
             => \A k \in 1 .. Len(log) : log[k].ver = Forced
        /\ call.pc = "done"
             => /\ (call.result # None)
                     => log # << >> /\ log[Len(log)].outcome = "value"
                /\ \A k \in 1 .. Len(log) : log[k].outcome = "value" => k = Len(log)
                /\ (call.result = None)
                     => \A k \in 1 .. Len(log) : log[k].outcome # "value"

\* C15: without a forced version snmp_get asks v2c first and v1 only after
\* the v2c request ended in an error indication or error status (and then it
\* does); it returns the value of the first request that succeeds and None
\* when none does; with a forced version every request is of that version.
C15_VersionFallback == call.fn = "snmp_get" => VersionFallback

\* the same for the build with pysnmp alone
PysnmpVersionFallback ==
    (call.fn = "snmp_get" /\ call.build = "pysnmp") => VersionFallback

\* C16: every request snmp_get sends uses a retry count within 0 .. 5 and a
\* timeout within 0.1 s .. 10 s.
C16_ClampedEffective ==
    call.fn = "snmp_get"
      => \A k \in 1 .. Len(call.attempts) :
            /\ call.attempts[k].retries \in 0 .. 5
            /\ call.attempts[k].timeout \in 10 .. 1000

\* what is clamped: the values the pysnmp build takes from the environment
EnvValuesClamped ==
    (call.fn = "snmp_get" /\ call.build = "pysnmp" /\ call.pc # "start")
      => /\ ~IsSome(call.retries) => call.eff_retries \in 0 .. 5
         /\ ~IsSome(call.timeout) => call.eff_timeout \in 10 .. 1000

(***************************************************************************)
(* Properties of the credential probers                                    *)
(***************************************************************************)
\* the candidates of a community probe and its OID order, written out
C17Candidates ==
    IF call.request.communities = << >> THEN default_comms ELSE call.request.communities
C17Order ==
    << IF Truthy(call.request.oid) THEN call.request.oid ELSE "1.3.6.1.2.1.1.1.0",
       "1.3.6.1.2.1.1.5.0", "1.3.6.1.2.1.1.2.0", "1.3.6.1.2.1.1.3.0",
       "1.3.6.1.4.1.841.1.1.2.1.5.7", "1.3.6.1.4.1.841.1.1.2.1.5.8" >>

\* does the device answer community comm on OID oid
C17Answers(comm, oid) ==
    /\ comm \in call.agent.accepts
    /\ call.agent.reply[oid] \notin {None, "", Simulated, "raise"}

\* position in C17Order of the first OID answered for comm; 7 when none is
C17First(comm) ==
    IF \E k \in 1 .. 6 : C17Answers(comm, C17Order[k])
    THEN CHOOSE k \in 1 .. 6 : /\ C17Answers(comm, C17Order[k])
                               /\ \A j \in 1 .. (k - 1) : ~C17Answers(comm, C17Order[j])
    ELSE 7

\* the requests and the matches expected for the candidates from position c on
RECURSIVE C17Calls(_)
C17Calls(c) ==
    IF c > Len(C17Candidates) THEN << >>
    ELSE [k \in 1 .. Min(C17First(C17Candidates[c]), 6) |->
             << C17Candidates[c], C17Order[k] >>] \o C17Calls(c + 1)
RECURSIVE C17Matches(_)
C17Matches(c) ==
    IF c > Len(C17Candidates) THEN << >>
    ELSE (IF C17First(C17Candidates[c]) <= 6
          THEN << [community |-> C17Candidates[c],
                   oid |-> C17Order[C17First(C17Candidates[c])],
                   value |-> call.agent.reply[C17Order[C17First(C17Candidates[c])]]] >>
          ELSE << >>) \o C17Matches(c + 1)

C18_NoInvalidV3Request ==
    call.fn = "probe_snmp_v3"
      => \A k \in 1 .. Len(call.calls) :
            Truthy(call.calls[k].priv_protocol)
              => /\ Truthy(call.calls[k].auth_protocol)
                 /\ Truthy(call.calls[k].priv_key)

\* a probe has returned after passing over AES without a privacy key and
\* sending requests with AES and a key
C18_Witness ==
    /\ call.fn = "probe_snmp_v3" /\ call.pc = "done"
    /\ \E k \in 1 .. Len(call.skipped) :
          call.skipped[k].priv_protocol = "AES" /\ ~Truthy(call.skipped[k].priv_key)
    /\ \E k \in 1 .. Len(call.calls) : call.calls[k].priv_protocol = "AES"

\* C19: after a request for a username has returned a value no further
\* request is sent for that username, and the match list holds at most one
\* entry per username.
C19_StopsAtFirstSuccessPerUser ==
    call.fn = "probe_snmp_v3"
      => /\ \A i, j \in 1 .. Len(call.calls) :
               (i < j /\ Truthy(call.calls[i].value))
                 => call.calls[j].username # call.calls[i].username
         /\ \A i, j \in 1 .. Len(call.matches) :
               i # j => call.matches[i].username # call.matches[j].username

\* what the `break` does stop: the OID loop of the one credential combination
V3StopsAtFirstSuccessPerCombo ==
    call.fn = "probe_snmp_v3"
      => \A i, j \in 1 .. Len(call.calls) :
            (i < j /\ Truthy(call.calls[i].value))
              => [call.calls[j] EXCEPT !.oid = None, !.value = None]
                   # [call.calls[i] EXCEPT !.oid = None, !.value = None]

(***************************************************************************)
(* Properties of the network base                                          *)
(***************************************************************************)
\* bit b of octet x
Bit(x, b) == (x \div (2 ^ b)) % 2
\* o is the bitwise AND of the octets a and m
IsAndOf(o, a, m) == /\ o \in 0 .. 255
                    /\ \A b \in 0 .. 7 : Bit(o, b) = Bit(a, b) * Bit(m, b)

C20Base(base) ==
    LET ip   == call.ip_address
        mask == call.subnet_mask
    IN  /\ Len(base) \in 1 .. 3
        /\ \A i \in 1 .. Len(base) : IsAndOf(base[i], ip[i], mask[i])
        /\ (mask[1] = 255 /\ mask[2] = 255 /\ mask[3] = 255)
             => base = << ip[1], ip[2], ip[3] >>
        /\ mask = << 255, 255, 0, 0 >> => base = << ip[1], ip[2] >>

\* C20: for an address and a mask of four octets the returned base is the
\* address's first three octets when the mask is 255.255.255.x, its first two
\* when the mask is 255.255.0.0, and always one to three octets each of which
\* is the bitwise AND of the address octet and the mask octet; both
\* implementations agree.
C20_NetworkBase ==
    (call.fn = "calculate_network_base" /\ call.pc = "done" /\ Len(call.ip_address) = 4)
      => /\ C20Base(call.network_base)
         /\ C20Base(call.detector_base)

\* the base of 10.205.5.x under mask 255.255.248.0 is the /16 prefix "10.205."
C20_Witness ==
    /\ call.fn = "calculate_network_base" /\ call.pc = "done"
    /\ call.subnet_mask = << 255, 255, 248, 0 >>
    /\ call.ip_address = << 10, 205, 5, 10 >>
    /\ call.network_base = << 10, 205 >>

(***************************************************************************)
(* get_local_networks                                                      *)
(***************************************************************************)
FallbackBases == { fallback_networks[i].base : i \in 1 .. Len(fallback_networks) }

\* C21: the list get_local_networks returns is never empty and holds every
\* fallback base; it is the detected ranges followed by exactly the fallback
\* entries whose base was not detected, and it is the fallback list itself
\* when the interface introspection raised.
C21_FallbacksAlwaysPresent ==
    (call.fn = "get_local_networks" /\ call.pc = "done") =>
        LET result   == call.networks
            detected == call.detected
            tail     == SubSeq(result, Len(detected) + 1, Len(result))
        IN  /\ result # << >>
            /\ FallbackBases \subseteq existing_bases(result)
            /\ Len(result) >= Len(detected)
            /\ SubSeq(result, 1, Len(detected)) = detected
            /\ \A i \in 1 .. Len(tail) :
                 /\ tail[i] \in { fallback_networks[k] : k \in 1 .. Len(fallback_networks) }
                 /\ tail[i].base \notin existing_bases(detected)
                 /\ \A j \in 1 .. Len(tail) : tail[j] = tail[i] => j = i
            /\ call.threw => result = fallback_networks

\* a connected adapter on 10.205.5.0/24 was detected, so that fallback entry
\* is left out and the other three are appended
C21_Witness ==
    /\ call.fn = "get_local_networks" /\ call.pc = "done"
    /\ ~call.threw
    /\ <<10, 205, 5>> \in existing_bases(call.detected)
    /\ Len(call.networks) = Len(call.detected) + 3

\* the introspection raised and the fallback list was returned
NetsThrewReturnsFallbacks ==
    (call.fn = "get_local_networks" /\ call.pc = "done" /\ call.threw) =>
        call.detected = << >> /\ call.networks = fallback_networks

(***************************************************************************)
(* BER round trip of the raw-UDP build                                     *)
(***************************************************************************)
\* C22: for every OID of at least two arcs, a response holding the encoded
\* OID followed by the OCTET STRING of a printable value parses to that value,
\* and an OID value encoded by _encode_oid parses to its own dotted text.
C22_BerRoundTrip ==
    (call.fn = "_parse_response" /\ call.pc = "done"
        /\ Len(call.oid) >= 2 /\ Len(call.value) >= 1) =>
        call.val = (IF call.kind = "text" THEN call.value ELSE DotJoin(call.value))

\* an OID whose first two arcs fit the X.690 form of arcs 0 and 1
Below40(oid) == Len(oid) >= 2 /\ oid[1] \in 0 .. 2 /\ oid[2] < 40

\* the round trip holds for the OIDs whose second arc is below 40
BerRoundTripBelow40 ==
    (call.fn = "_parse_response" /\ Below40(call.oid)
        /\ (call.kind = "oid" => Below40(call.value))) =>
        /\ call.pc # "raised"
        /\ call.pc = "done" =>
             call.val = (IF call.kind = "text" THEN call.value ELSE DotJoin(call.value))

\* the example of the documentation: sysDescr and "Test Device"
BerExampleParsed ==
    /\ call.fn = "_parse_response" /\ call.pc = "done"
    /\ call.oid = << 1, 3, 6, 1, 2, 1, 1, 1, 0 >>
    /\ call.prefix # << >>
    /\ call.val = << 84, 101, 115, 116, 32, 68, 101, 118, 105, 99, 101 >>

(***************************************************************************)
(* Frame and lifetime of the sessions                                      *)
(***************************************************************************)
\* the session registered under id
SessionOf(S, H, id) == H[S[id]]

\* a step of the refresh handler of worker t (one that answers 404 included)
RefreshStep(t) == 
    \/ h[t].op = "refresh" /\ h'[t] # h[t]
    \/ h[t].pc = "idle" /\ h'[t].op = "refresh"
    \/ h[t].pc = "idle" /\ h'[t] = h[t] /\ resp' # resp /\ resp'.kind = "refresh"

\* C23: a step of refresh_session_summary(id) leaves the session map, the id
\* counter and every session other than id as they are, and changes of
\* session id nothing but last_sysDescr and system_name; every session has
\* status "active".
C23_RefreshFrame ==
    [][ /\ \A t \in Handlers :
             RefreshStep(t) =>
               /\ UNCHANGED <<SESSIONS, NEXT_SESSION_ID, issued_ids>>
               /\ Len(heap') = Len(heap)
               /\ \A k \in DOMAIN SESSIONS :
                    LET old == SessionOf(SESSIONS, heap, k)
                        new == SessionOf(SESSIONS', heap', k)
                        sid == IF h[t].op = "refresh" THEN h[t].sid ELSE resp'.sid
                    IN  /\ new.ip = old.ip
                        /\ new.device_type = old.device_type
                        /\ new.community = old.community
                        /\ new.status = old.status
                        /\ new.created_at = old.created_at
                        /\ k # sid => new = old
        /\ \A o \in 1 .. Len(heap') : heap'[o].status = "active"
      ]_vars

\* a refresh of session 1 has stored a description while session 2 exists
C23_Witness ==
    /\ resp.kind = "refresh" /\ resp.status = 200 /\ resp.sid = 1
    /\ DOMAIN SESSIONS = {1, 2}
    /\ Truthy(SessionOf(SESSIONS, heap, 1).last_sysDescr)
    /\ ~Truthy(SessionOf(SESSIONS, heap, 2).last_sysDescr)

\* C24: no step removes a session id from the registry, and a get, refresh
\* or configuration request is answered 404 only for an id that no
\* start_session has stored so far.
C24_SessionsNeverRemoved ==
    [][ /\ DOMAIN SESSIONS \subseteq DOMAIN SESSIONS'
        /\ (resp' # resp /\ resp'.status = 404)
             => /\ resp'.sid \notin DOMAIN SESSIONS
                /\ \A i \in 1 .. Len(issued_ids) : issued_ids[i] # resp'.sid
        /\ \A t \in Handlers :
             (h[t].pc = "idle" /\ resp' # resp /\ resp'.sid \in DOMAIN SESSIONS
                /\ resp'.kind \in {"summary", "device", "configuration"})
               => resp'.status = 200
      ]_vars

\* with two sessions stored, a request for the first one is answered 200
C24_Witness ==
    /\ DOMAIN SESSIONS = {1, 2}
    /\ resp.kind \in {"summary", "refresh", "configuration"}
    /\ resp.status = 200 /\ resp.sid = 1

\* C27: every id below the counter is a key of the session map, and no get
\* or refresh is answered 404 for an id the counter has passed.
C27_TakenIdsAreRegistered ==
    /\ \A id \in 1 .. (NEXT_SESSION_ID - 1) : id \in DOMAIN SESSIONS
    /\ (resp.status = 404 /\ resp.kind \in {"summary", "device", "refresh"})
          => resp.sid >= NEXT_SESSION_ID

\* the start request of a session, told by the community it stored
StartRequestOf(sess) == CHOOSE req \in Requests : ReqCommunity(req) = sess.community

\* probe p carries the SNMP settings of start request req
UsesCredential(p, req) ==
    /\ p.community = ReqCommunity(req)
    /\ p.version = req.version
    /\ p.port = ReqPort(req)

\* C28: every probe of start_session, and every probe of a refresh of the
\* session it stored, carries the community, version and port of the start
\* request.
C28_ProbesUseSessionCredential ==
    \A t \in Handlers :
        /\ h[t].op = "start" =>
             \A i \in 1 .. Len(h[t].probes) : UsesCredential(h[t].probes[i], h[t].req)
        /\ h[t].op = "refresh" =>
             \A i \in 1 .. Len(h[t].probes) :
                 UsesCredential(h[t].probes[i], StartRequestOf(heap[h[t].sess]))

\* the probes use the community of the start request throughout
ProbesUseSessionCommunity ==
    \A t \in Handlers :
        /\ h[t].op = "start" =>
             \A i \in 1 .. Len(h[t].probes) :
                 h[t].probes[i].community = ReqCommunity(h[t].req)
        /\ h[t].op = "refresh" =>
             \A i \in 1 .. Len(h[t].probes) :
                 h[t].probes[i].community = heap[h[t].sess].community

(***************************************************************************)
(* The SNMP discovery endpoints                                            *)
(***************************************************************************)
\* C25: when the scan returned a device it flagged as a station radio, the
\* endpoint returns the scan result as it is; the hard-coded 10.205.5.20 is
\* added only when the scan flagged none.
C25_KnownRadioOnlyWhenNoneFound ==
    (call.fn = "discover_devices"
        /\ \E i \in 1 .. Len(devices) : devices[i].is_station_radio)
      => call.candidates = devices

\* the endpoint puts the hard-coded radio in front of whatever the scan found
DiscoverAlwaysAddsKnownRadio ==
    call.fn = "discover_devices" => call.candidates = << KnownStationRadio >> \o devices

(***************************************************************************)
(* The ARP/ping discovery endpoints                                        *)
(***************************************************************************)
\* how often address ip occurs among the candidates
Occurrences(candidates, ip) ==
    Cardinality({ i \in 1 .. Len(candidates) : candidates[i].ip = ip })

\* C29: when get_your_station_radio_ip returned an address, the candidate
\* list of the ARP/ping endpoints holds that address exactly once, whether or
\* not the sweep lists it too.
C29_YourRadioListedOnce ==
    (call.fn \in {"discover_devices", "test_discover_devices"} /\ call.pc = "done"
        /\ IsSome(call.your_station_radio_ip))
      => Occurrences(call.candidates, call.your_station_radio_ip[1]) = 1

\* test_discover_devices lists the found radio exactly once
TestDiscoverListsYourRadioOnce ==
    (call.fn = "test_discover_devices" /\ call.pc = "done"
        /\ IsSome(call.your_station_radio_ip))
      => Occurrences(call.candidates, call.your_station_radio_ip[1]) = 1

\* discover_devices drops the found radio when the sweep lists it as well
DiscoverDropsSweptRadio ==
    (call.fn = "discover_devices" /\ call.pc = "done"
        /\ IsSome(call.your_station_radio_ip))
      => Occurrences(call.candidates, call.your_station_radio_ip[1])
           = (IF found_in_list(call.real_devices, call.your_station_radio_ip[1])
              THEN 0 ELSE 1)

(***************************************************************************)
(* SNMP overrides of discover_devices                                      *)
(***************************************************************************)
\* every discover request that was started has returned
AllDiscoversReturned ==
    /\ call.fn = "discover_devices_env" /\ call.begun > 0
    /\ \A t \in Handlers : call.d[t].pc = "idle"

\* C26: once every discover request has returned, the three METRO_SNMP_*
\* settings hold the values they had before the first request started.
C26_OverridesAreTemporary ==
    AllDiscoversReturned => call.environ = call.original

\* requests that did not overlap leave the environment as they found it
OverridesTemporaryWhenSerial ==
    (AllDiscoversReturned /\ ~call.overlapped) => call.environ = call.original

\* two requests served one after the other have both returned
SerialDiscoversReturned ==
    AllDiscoversReturned /\ ~call.overlapped /\ call.begun = 2

(***************************************************************************)
(* Overlapping ranges in the network list                                  *)
(***************************************************************************)
\* C30: a scan starts at most one probe per address and returns at most one
\* candidate per address, whatever ranges the network list holds.
C30_OneProbePerAddress ==
    /\ Distinct(started)
    /\ \A i, j \in 1 .. Len(devices) : devices[i].ip = devices[j].ip => i = j

\* the bases of the network list, and whether one range lies inside another
\* or is listed twice
NetworkBases == [n \in 1 .. Len(networks) |-> networks[n].base]
Overlapping ==
    \E m, n \in 1 .. Len(networks) :
        /\ m # n
        /\ \/ NetworkBases[m] = NetworkBases[n]
           \/ /\ Len(NetworkBases[m]) = 2 /\ Len(NetworkBases[n]) = 3
              /\ SubSeq(NetworkBases[n], 1, 2) = NetworkBases[m]

\* ranges that do not overlap are probed once per address
OneProbePerAddressWithoutOverlap ==
    ~Overlapping => C30_OneProbePerAddress

\* the scan of the ranges "10.0." and "10.0.0." has returned two candidates
\* for one address
OverlapReturnsAddressTwice ==
    /\ sc.returned
    /\ NetworkBases = << <<10, 0>>, <<10, 0, 0>> >>
    /\ \E i, j \in 1 .. Len(devices) : i # j /\ devices[i].ip = devices[j].ip

====
